---- MODULE Spec2Model ----
(***************************************************************************)
(* Verification model of fature-data-service-v2: the ETL scheduler         *)
(* (ETLScheduler), the ETL manager (ETLManager), the extract / transform / *)
(* load pipeline (DataExtractor, DataTransformer, DataLoader) and the      *)
(* analytics upsert (DataService / DataModel).                             *)
(*                                                                         *)
(* The module holds several specifications over one set of variables; a    *)
(* specification leaves the variables of the other parts unchanged.        *)
(*   SpecSched      initialize, scheduler jobs, cron fires, manual runs,   *)
(*                  shutdown                                               *)
(*   SpecFires      cron fires and manual runs with failing tables         *)
(*   SpecAnalytics  generateUserAnalytics / upsertUserAnalytics            *)
(*   SpecMetrics    the deposit and result metrics of a user_analytics row *)
(*   SpecLoader     DataLoader.loadTable / loadBatch / loadRecord          *)
(*   SpecMapper     DataTransformer.transformTable                         *)
(*   SpecSync       ETLManager.syncTable over a source and a target table  *)
(*   SpecFullRead   DataExtractor.extractFull, with fairness               *)
(*   SpecConnect    DataExtractor.connect / DataLoader.connect             *)
(*   SpecExternal   DataService.syncExternalData and data_sync_logs        *)
(*   SpecCpa        the CPA qualification of a user_analytics row          *)
(*   SpecPeriods    the period of user_ and affiliate_analytics rows       *)
(*   SpecTransformer  a sequence of transformTable calls                   *)
(*   SpecRun        ETLManager.runFullSync / runIncrementalSync            *)
(*   SpecBudget     a scheduler job while the clock advances               *)
(*   SpecTwoLoaders two loadBatch calls at once on one target table        *)
(***************************************************************************)
EXTENDS Integers, Sequences, FiniteSets, TLC

VARIABLES
    \* ---- ETLScheduler (dataService.js 612-1120)
    jobs,            \* this.jobs: the kinds that have a cron task in the Map
    cronStarted,     \* the kinds whose cron task is started (job.start / job.stop)
    isRunning,       \* ETLScheduler.isRunning
    currentJobs,     \* this.currentJobs: Set of kinds
    stats,           \* this.stats: totalJobs, successfulJobs, failedJobs
    tasks,           \* one entry per call of executeFullSync/IncrementalSync/Cleanup
    nFires,          \* number of calls of execute* so far (index of the last task)
    dropped,         \* number of calls that returned at the "ja em execucao" guard
    \* ---- connection pools of the scheduler's and the manager's extractor/loader
    pools,
    \* ---- ETLManager (part_002)
    isInitialized,   \* ETLManager.isInitialized
    mgrIsRunning,    \* ETLManager.isRunning
    initPc,          \* position of the last ETLManager.initialize() call
    initCalls,       \* history: the initialize() calls so far, by outcome
    stopPc,          \* position of the one ETLManager.stop() call
    stopStage,       \* index in StopOrder of the pool whose end() is awaited
    atStop,          \* history: the tasks that were running when stop() was called
    \* ---- analytics (DataService.generateUserAnalytics, DataModel)
    userAnalytics,   \* the rows of table user_analytics, in insertion order
    anaCalls,        \* one entry per call of generateUserAnalytics
    nAnaCalls,       \* number of calls of generateUserAnalytics so far
    lastWrite,       \* history: key -> the values of the last upsert executed for it
    configValues,    \* what the config service returns for the keys it holds
    affiliateAnalytics, \* the rows of table affiliate_analytics, in insertion order
    \* ---- DataTransformer (dataTransformer.js)
    mapPc,           \* position of the one transformTable call
    mapTable,        \* its tableName
    mapInput,        \* its sourceData
    mapResult,       \* what it returned: transformedData and rejectedRecords
    mapLog,          \* one record per transformTable call of this transformer
    transformationStats, \* this.transformationStats
    \* ---- the target database and the clock
    target,          \* target table name -> its committed rows, in insertion order
    now,             \* the wall clock, in quarter hours
    \* ---- DataLoader (dataService.js 1131-1576)
    loadStats,       \* this.loadStats (errors: its length)
    loadPc,          \* position of the one loadBatch call
    loadTable,       \* the table name of its mapping
    loadBatchRows,   \* its batch
    loadPos,         \* index of the next record of the batch
    loadTxn,         \* the open transaction: the rows it sees, and whether it is aborted
    loadOutcomes,    \* history: what loadRecord did with each record so far
    loadCommitted,   \* history: the COMMIT of the batch made its writes durable
    targetAtBegin,   \* history: the target tables when the batch began
    \* ---- ETLManager.syncTable (part_002 268-333) and the source database
    source,          \* source table name -> its rows (they do not change)
    enabled,         \* table name -> mapping.enabled (ETL_SYNC_* of the environment)
    syncPc,          \* position of the current syncTable call
    syncRun,         \* the current syncTable call: arguments, watermark, progress
    syncLog,         \* history: the syncTable calls that returned, in order
    lastExtract,     \* history: the last extractTable result with success: true
    \* ---- connect() of one DataExtractor / DataLoader and its database
    dbUp,            \* the database accepts connections
    nFlips,          \* number of times the database went down or came up
    connIsConnected, \* this.isConnected (with the pool field set)
    connectionRetries, \* this.connectionRetries
    connCalls,       \* one entry per call of connect() from outside
    nConnCalls,      \* number of calls of connect() so far
    sourcePool,      \* this.sourcePool: the Pool it refers to, 0 for null
    madePools,       \* number of `new Pool(..)` so far: the pools are 1..madePools
    endedPools,      \* the pools whose end() was called
    \* ---- DataService.syncExternalData and table data_sync_logs
    extCalls,        \* one entry per call of syncExternalData: its local variables
    nExtCalls,       \* number of calls of syncExternalData so far
    dataSyncLogs,    \* call -> the data_sync_logs row it created
    \* ---- ETLManager.runFullSync / runIncrementalSync (part_002 92-265)
    runPc,           \* position of the one run: the await it is suspended at
    etlRun,          \* its options, its tablesToSync, its results and what it returned
    \* ---- two loadBatch calls at once on one target table (dataService.js 1278-1372)
    ccPc,            \* job -> position of its loadBatch call
    ccTxn,           \* job -> its batch and its open transaction
    ccUnique,        \* the target table has a unique index on its unique columns
    \* ---- the clients of targetPool and the loadBatch calls that take them
    poolClients,     \* client of the pool -> it is checked out
    batchCalls,      \* one entry per loadBatch call: its client and what it ran on it
    nBatchCalls,     \* number of loadBatch calls so far
    \* ---- the external database DataModel.getExternalData reads
    external,        \* table name -> its rows (they do not change)
    \* ---- initialize() calls that overlap, and the tasks of node-cron
    initializing,    \* call of ETLManager.initialize() -> its position
    cronTasks,       \* kind -> number of node-cron tasks started for it
    cronTick         \* the tick of the clock being served: its kind, its callbacks

schedVars == <<jobs, cronStarted, isRunning, currentJobs, stats, tasks, nFires,
               dropped, pools, isInitialized, mgrIsRunning, initPc, initCalls,
               stopPc, stopStage, atStop>>

anaVars == <<userAnalytics, anaCalls, nAnaCalls, lastWrite, configValues,
            affiliateAnalytics>>

mapVars == <<mapPc, mapTable, mapInput, mapResult, mapLog, transformationStats>>

dbVars == <<target, now, loadStats>>

loadVars == <<loadPc, loadTable, loadBatchRows, loadPos, loadTxn, loadOutcomes,
              loadCommitted, targetAtBegin>>

syncVars == <<source, enabled, syncPc, syncRun, syncLog, lastExtract>>

connVars == <<dbUp, nFlips, connIsConnected, connectionRetries, connCalls, nConnCalls,
              sourcePool, madePools, endedPools>>

extVars == <<extCalls, nExtCalls, dataSyncLogs>>

runVars == <<runPc, etlRun>>

ccVars == <<ccPc, ccTxn, ccUnique>>

clientVars == <<poolClients, batchCalls, nBatchCalls>>

externVars == <<external>>

cronVars == <<initializing, cronTasks, cronTick>>

vars == <<schedVars, anaVars, mapVars, dbVars, loadVars, syncVars, connVars, extVars,
          runVars, ccVars, clientVars, externVars, cronVars>>

\* What the scheduler and the manager lifecycle leave alone.
notSched == <<anaVars, mapVars, dbVars, loadVars, syncVars, connVars, extVars,
            runVars, ccVars, clientVars, externVars, cronVars>>

\* What the analytics engine leaves alone.
notAna == <<schedVars, mapVars, dbVars, loadVars, syncVars, connVars, extVars,
            runVars, ccVars, clientVars, externVars, cronVars>>

\* What the transformer leaves alone.
notMap == <<schedVars, anaVars, dbVars, loadVars, syncVars, connVars, extVars,
            runVars, ccVars, clientVars, externVars, cronVars>>

\* What a loadBatch call leaves alone.
notLoad == <<schedVars, anaVars, mapVars, syncVars, connVars, extVars,
            runVars, ccVars, clientVars, externVars, cronVars>>

\* What a connect() call leaves alone.
notConn == <<schedVars, anaVars, mapVars, dbVars, loadVars, syncVars, extVars,
            runVars, ccVars, clientVars, externVars, cronVars>>

\* What a syncExternalData call leaves alone.
notExt == <<schedVars, anaVars, mapVars, dbVars, loadVars, syncVars, connVars,
            runVars, ccVars, clientVars, externVars, cronVars>>

\* What a loadBatch call leaves alone apart from its client.
notClient == <<schedVars, anaVars, mapVars, dbVars, loadVars, syncVars, connVars,
              extVars, runVars, ccVars, externVars, cronVars>>

\* What a syncTable call and the clock leave alone.
notSync == <<schedVars, anaVars, mapVars, loadVars, connVars, extVars,
            runVars, ccVars, clientVars, externVars, cronVars>>

(***************************************************************************)
(* Bounds of the model.                                                    *)
(***************************************************************************)
\* Number of execute* calls (cron fires and manual all-table runs) explored.
MaxFires == 3

\* Number of execute* calls and of ticks of the clock explored when the time
\* a job takes is followed.
MaxBudgetFires == 1

MaxBudgetTicks == 5

(***************************************************************************)
(* ETLConfig (config.js)                                                   *)
(***************************************************************************)
\* The three recurrences the scheduler owns (config.js 47-69).
Kinds == {"fullSync", "incrementalSync", "cleanup"}

\* Object.keys(ETLConfig.mappings), all enabled by default (config.js 72-216).
MappingNames == <<"users", "transactions", "bets">>

\* Tables a full fire walks: the enabled mappings (dataService.js 748-750).
FullTables == MappingNames

\* Tables an incremental fire walks: enabled and with an incrementalField;
\* every mapping declares one (config.js 76, 131, 182; dataService.js 806-809).
IncrementalTables == MappingNames

JobTables(kind) ==
    IF kind = "fullSync" THEN FullTables
    ELSE IF kind = "incrementalSync" THEN IncrementalTables
    ELSE << >>

(***************************************************************************)
(* Connection pools.  Each extractor / loader owns one pool field          *)
(* (sourcePool / targetPool) and an isConnected flag.                      *)
(***************************************************************************)
PoolIds == {"schedSrc", "schedTgt", "mgrSrc", "mgrTgt"}

NoPool == [pool |-> "none", isConnected |-> FALSE]

\* DataExtractor.connect / DataLoader.connect with a reachable database:
\* an already connected object returns its pool, otherwise a new Pool
\* replaces the field and isConnected is set.
Connect(p) ==
    IF p.isConnected /\ p.pool # "none"
    THEN p
    ELSE [pool |-> "open", isConnected |-> TRUE]

\* The synchronous part of disconnect(): pool.end() is called on the pool.
BeginDisconnect(p) == [p EXCEPT !.pool = "ended"]

\* The continuation of disconnect() after `await pool.end()`.
EndDisconnect(p) == [p EXCEPT !.isConnected = FALSE]

(***************************************************************************)
(* ETLScheduler: the body of executeFullSync / executeIncrementalSync /    *)
(* executeCleanup.  A task is one call; its pc is the await it is          *)
(* suspended at.                                                           *)
(*   "sync"    awaiting syncTable(tables[idx])                             *)
(*   "delay"   awaiting delay(5000 / 2000) after tables[idx]               *)
(*   "cleanup" awaiting loader.cleanup()                                   *)
(*   "dropped" returned at the guard, "done" returned after the finally    *)
(***************************************************************************)
\* startTime is the `const startTime = Date.now()` of the call; late counts
\* the awaits of the call that returned after its budget was over (history).
NoTask == [kind |-> "none", origin |-> "none", pc |-> "none", idx |-> 0,
           results |-> << >>, startTime |-> 0, late |-> 0]

Running(t) == tasks[t].pc \in {"sync", "delay", "cleanup"}

\* Number of executions of kind k between their start and their finally.
RunningCount(k) == Cardinality({t \in 1..MaxFires : Running(t) /\ tasks[t].kind = k})

\* ETLConfig.schedule.fullSync.timeout and .incrementalSync.timeout
\* (3600000 ms and 300000 ms), in minutes.
FullSyncTimeout == 60

IncrementalSyncTimeout == 5

\* A tick of the clock is a quarter of an hour.
MinutesPerTick == 15

\* The time budget of a job, in minutes (cleanup has none).
Timeout(kind) == IF kind = "fullSync" THEN FullSyncTimeout ELSE IncrementalSyncTimeout

\* Date.now() - startTime of a running sync job is beyond its budget.
OverBudget(t) ==
    /\ Running(t) /\ tasks[t].kind \in {"fullSync", "incrementalSync"}
    /\ (now - tasks[t].startTime) * MinutesPerTick > Timeout(tasks[t].kind)

\* The history field late when an await of the call returns.
LateAwaits(t) == tasks[t].late + (IF OverBudget(t) THEN 1 ELSE 0)

\* The guard without its test: every call starts an execution.
AlreadyRunningMissingGuard(kind) == FALSE

\* The guard that opens each execute*: `if (this.currentJobs.has(kind)) return`.
AlreadyRunning(kind) == kind \in currentJobs

\* Execute with `this.stats.totalJobs++` moved above the guard.
ExecuteCountsBeforeGuard(kind, origin) ==
    /\ nFires < MaxFires
    /\ nFires' = nFires + 1
    /\ IF AlreadyRunning(kind)
       THEN /\ tasks' = [tasks EXCEPT ![nFires + 1] =
                           [kind |-> kind, origin |-> origin, pc |-> "dropped", idx |-> 0,
                            results |-> << >>, startTime |-> now, late |-> 0]]
            /\ dropped' = dropped + 1
            /\ stats' = [stats EXCEPT !.totalJobs = @ + 1]
            /\ UNCHANGED currentJobs
       ELSE /\ currentJobs' = currentJobs \cup {kind}
            /\ stats' = [stats EXCEPT !.totalJobs = @ + 1]
            /\ tasks' = [tasks EXCEPT ![nFires + 1] =
                           [kind |-> kind, origin |-> origin,
                            pc |-> IF kind = "cleanup" THEN "cleanup" ELSE "sync",
                            idx |-> IF kind = "cleanup" THEN 0 ELSE 1,
                            results |-> << >>, startTime |-> now, late |-> 0]]
            /\ UNCHANGED dropped

\* One call of execute<kind>, up to its first await.
Execute(kind, origin) ==
    /\ nFires < MaxFires
    /\ nFires' = nFires + 1
    /\ IF AlreadyRunning(kind)
       THEN /\ tasks' = [tasks EXCEPT ![nFires + 1] =
                           [kind |-> kind, origin |-> origin, pc |-> "dropped", idx |-> 0,
                            results |-> << >>, startTime |-> now, late |-> 0]]
            /\ dropped' = dropped + 1
            /\ UNCHANGED <<currentJobs, stats>>
       ELSE /\ currentJobs' = currentJobs \cup {kind}
            /\ stats' = [stats EXCEPT !.totalJobs = @ + 1]
            /\ tasks' = [tasks EXCEPT ![nFires + 1] =
                           [kind |-> kind, origin |-> origin,
                            pc |-> IF kind = "cleanup" THEN "cleanup" ELSE "sync",
                            idx |-> IF kind = "cleanup" THEN 0 ELSE 1,
                            results |-> << >>, startTime |-> now, late |-> 0]]
            /\ UNCHANGED dropped

\* The cron callback registered by scheduleFullSync / scheduleIncrementalSync /
\* scheduleCleanup fires.
CronFire(kind) ==
    /\ kind \in cronStarted
    /\ Execute(kind, "cron")
    /\ UNCHANGED <<jobs, cronStarted, isRunning, pools, isInitialized, mgrIsRunning,
                   initPc, initCalls, stopPc, stopStage, atStop>>
    /\ UNCHANGED notSched

\* POST /scheduler/manual without tableName: runManualSync(null, syncType) calls
\* executeFullSync or executeIncrementalSync; the route answers only once the
\* manager is initialized (etlRoutes.js 7-16, 341-351).
ManualRun(kind) ==
    /\ isInitialized
    /\ kind \in {"fullSync", "incrementalSync"}
    /\ Execute(kind, "manual")
    /\ UNCHANGED <<jobs, cronStarted, isRunning, pools, isInitialized, mgrIsRunning,
                   initPc, initCalls, stopPc, stopStage, atStop>>
    /\ UNCHANGED notSched

\* A job that gives up at the first table whose syncTable returns
\* success: false.
SyncTableReturnsOrAborts(t, loaderUsed, success) ==
    /\ tasks[t].pc = "sync"
    /\ IF success
       THEN /\ tasks' = [tasks EXCEPT ![t].pc = "delay", ![t].results = Append(@, success),
                                         ![t].late = LateAwaits(t)]
            /\ UNCHANGED <<stats, currentJobs>>
       ELSE /\ tasks' = [tasks EXCEPT ![t].pc = "done", ![t].results = Append(@, success),
                                         ![t].late = LateAwaits(t)]
            /\ stats' = [stats EXCEPT !.failedJobs = @ + 1]
            /\ currentJobs' = currentJobs \ {tasks[t].kind}
    /\ pools' = [pools EXCEPT
                   !["schedSrc"] = Connect(@),
                   !["schedTgt"] = IF loaderUsed /\ tasks[t].kind = "incrementalSync"
                                   THEN Connect(@) ELSE @]
    /\ UNCHANGED <<jobs, cronStarted, isRunning, nFires, dropped,
                   isInitialized, mgrIsRunning, initPc, initCalls, stopPc, stopStage, atStop>>
    /\ UNCHANGED notSched

\* `await this.syncTable(tableName, mode)` returns (it never throws: syncTable
\* catches everything) with success: true or success: false; the result is
\* stored in results[tableName] and the loop goes on to its delay.  The
\* extractor connects; the loader is reached only by an incremental sync whose
\* extract returned rows (loadTable is then called, even with no accepted row).
SyncTableReturns(t, loaderUsed, success) ==
    /\ tasks[t].pc = "sync"
    /\ tasks' = [tasks EXCEPT ![t].pc = "delay", ![t].results = Append(@, success),
                                         ![t].late = LateAwaits(t)]
    /\ pools' = [pools EXCEPT
                   !["schedSrc"] = Connect(@),
                   !["schedTgt"] = IF loaderUsed /\ tasks[t].kind = "incrementalSync"
                                   THEN Connect(@) ELSE @]
    /\ UNCHANGED <<jobs, cronStarted, isRunning, currentJobs, stats, nFires, dropped,
                   isInitialized, mgrIsRunning, initPc, initCalls, stopPc, stopStage, atStop>>
    /\ UNCHANGED notSched

\* `await this.delay(..)` returns: next table, or the code after the loop up to
\* the next await (fullSync: loader.cleanup()) or to the finally.
DelayReturns(t) ==
    /\ tasks[t].pc = "delay"
    /\ IF tasks[t].idx < Len(JobTables(tasks[t].kind))
       THEN /\ tasks' = [tasks EXCEPT ![t].pc = "sync", ![t].idx = @ + 1,
                                         ![t].late = LateAwaits(t)]
            /\ UNCHANGED <<stats, currentJobs>>
       ELSE /\ stats' = [stats EXCEPT !.successfulJobs = @ + 1]
            /\ IF tasks[t].kind = "fullSync"
               THEN /\ tasks' = [tasks EXCEPT ![t].pc = "cleanup",
                                         ![t].late = LateAwaits(t)]
                    /\ UNCHANGED currentJobs
               ELSE /\ tasks' = [tasks EXCEPT ![t].pc = "done",
                                         ![t].late = LateAwaits(t)]
                    /\ currentJobs' = currentJobs \ {tasks[t].kind}
    /\ UNCHANGED <<jobs, cronStarted, isRunning, nFires, dropped, pools,
                   isInitialized, mgrIsRunning, initPc, initCalls, stopPc, stopStage, atStop>>
    /\ UNCHANGED notSched

\* `await this.loader.cleanup()` returns (cleanup() catches its own errors), then
\* the finally block removes the kind.
CleanupReturns(t) ==
    /\ tasks[t].pc = "cleanup"
    /\ pools' = [pools EXCEPT !["schedTgt"] = Connect(@)]
    /\ stats' = IF tasks[t].kind = "cleanup"
                THEN [stats EXCEPT !.successfulJobs = @ + 1]
                ELSE stats
    /\ tasks' = [tasks EXCEPT ![t].pc = "done",
                                         ![t].late = LateAwaits(t)]
    /\ currentJobs' = currentJobs \ {tasks[t].kind}
    /\ UNCHANGED <<jobs, cronStarted, isRunning, nFires, dropped,
                   isInitialized, mgrIsRunning, initPc, initCalls, stopPc, stopStage, atStop>>
    /\ UNCHANGED notSched

(***************************************************************************)
(* ETLManager.initialize (part_002 28-68) and ETLScheduler.initialize      *)
(* (dataService.js 634-668).                                               *)
(***************************************************************************)
\* Number of initialize() calls explored.
MaxInitCalls == 3

\* initialize() without its isInitialized guard: it tests the connections again.
InitializeCallRetests ==
    /\ initPc # "testing"
    /\ initCalls.total < MaxInitCalls
    /\ initCalls' = [initCalls EXCEPT !.total = @ + 1]
    /\ initPc' = "testing"
    /\ UNCHANGED <<jobs, cronStarted, isRunning, currentJobs, stats, tasks, nFires,
                   dropped, pools, isInitialized, mgrIsRunning, stopPc, stopStage,
                   atStop>>
    /\ UNCHANGED notSched

\* initialize() up to its first await: it returns at once when isInitialized
\* is set, and awaits testConnections() otherwise.  (Calls do not overlap:
\* the caller awaits one before it makes the next.)
InitializeCall ==
    /\ initPc # "testing"
    /\ initCalls.total < MaxInitCalls
    /\ IF isInitialized
       THEN /\ initCalls' = [initCalls EXCEPT !.total = @ + 1, !.returned = @ + 1]
            /\ initPc' = initPc
       ELSE /\ initCalls' = [initCalls EXCEPT !.total = @ + 1]
            /\ initPc' = "testing"
    /\ UNCHANGED <<jobs, cronStarted, isRunning, currentJobs, stats, tasks, nFires,
                   dropped, pools, isInitialized, mgrIsRunning, stopPc, stopStage,
                   atStop>>
    /\ UNCHANGED notSched

\* testConnections() throws, in extractor.connect() or (srcOk) after it in
\* loader.connect(); initialize() logs and rethrows.
TestConnectionsFails(srcOk) ==
    /\ initPc = "testing"
    /\ initPc' = "threw"
    /\ initCalls' = [initCalls EXCEPT !.threw = @ + 1]
    /\ pools' = IF srcOk THEN [pools EXCEPT !["mgrSrc"] = Connect(@)] ELSE pools
    /\ UNCHANGED <<jobs, cronStarted, isRunning, currentJobs, stats, tasks, nFires,
                   dropped, isInitialized, mgrIsRunning, stopPc, stopStage, atStop>>
    /\ UNCHANGED notSched

\* testConnections() succeeded: both manager pools are connected, the scheduler
\* registers and starts its three cron tasks, the flags are set.
InitializeDone ==
    /\ initPc = "testing"
    /\ initPc' = "done"
    /\ pools' = [pools EXCEPT !["mgrSrc"] = Connect(@), !["mgrTgt"] = Connect(@)]
    /\ jobs' = Kinds
    /\ cronStarted' = Kinds
    /\ isRunning' = TRUE
    /\ isInitialized' = TRUE
    /\ mgrIsRunning' = TRUE
    /\ UNCHANGED <<currentJobs, stats, tasks, nFires, dropped, initCalls, stopPc,
                   stopStage, atStop>>
    /\ UNCHANGED notSched

(***************************************************************************)
(* ETLManager.stop (part_002 443-464) calling ETLScheduler.stop            *)
(* (dataService.js 1075-1098).  The four disconnect() calls are awaited in *)
(* StopOrder; a disconnect() of an object without a pool returns at once.  *)
(***************************************************************************)
StopOrder == <<"schedSrc", "schedTgt", "mgrSrc", "mgrTgt">>

\* First pool at or after position i that exists (5 when there is none).
RECURSIVE NextPool(_, _)
NextPool(i, p) ==
    IF i > Len(StopOrder) THEN i
    ELSE IF p[StopOrder[i]].pool # "none" THEN i
    ELSE NextPool(i + 1, p)

\* stop() without its wait loop.
StopWaitOverIgnoresJobs == TRUE

\* The while loop of ETLScheduler.stop: it leaves when no kind is running.
StopWaitOver == currentJobs = {}

\* Run stop() from the disconnect at position i up to the next await.
CloseFrom(i, p) ==
    LET j == NextPool(i, p) IN
    /\ stopStage' = j
    /\ stopPc' = IF j > Len(StopOrder) THEN "stopped" ELSE "ending"
    /\ pools' = IF j > Len(StopOrder) THEN p
                ELSE [p EXCEPT ![StopOrder[j]] = BeginDisconnect(@)]
    /\ isRunning' = IF j >= 3 THEN FALSE ELSE isRunning
    /\ mgrIsRunning' = IF j > Len(StopOrder) THEN FALSE ELSE mgrIsRunning

\* stop() is called on the started system: every cron task of the Map is
\* stopped, then the loop waits for the running kinds.
StopCall ==
    /\ isInitialized
    /\ stopPc = "idle"
    /\ cronStarted' = cronStarted \ jobs
    /\ atStop' = {t \in 1..MaxFires : Running(t)}
    /\ IF StopWaitOver
       THEN CloseFrom(1, pools)
       ELSE /\ stopPc' = "waiting"
            /\ UNCHANGED <<stopStage, pools, isRunning, mgrIsRunning>>
    /\ UNCHANGED <<jobs, currentJobs, stats, tasks, nFires, dropped, isInitialized,
                   initPc, initCalls>>
    /\ UNCHANGED notSched

\* `await this.delay(5000)` of the wait loop returns and the loop condition is
\* false: the disconnects begin.
StopWaitReturns ==
    /\ stopPc = "waiting"
    /\ StopWaitOver
    /\ CloseFrom(1, pools)
    /\ UNCHANGED <<jobs, cronStarted, currentJobs, stats, tasks, nFires, dropped,
                   isInitialized, initPc, initCalls, atStop>>
    /\ UNCHANGED notSched

\* `await pool.end()` of the disconnect at stopStage returns.
PoolEnded ==
    /\ stopPc = "ending"
    /\ CloseFrom(stopStage + 1,
                 [pools EXCEPT ![StopOrder[stopStage]] = EndDisconnect(@)])
    /\ UNCHANGED <<jobs, cronStarted, currentJobs, stats, tasks, nFires, dropped,
                   isInitialized, initPc, initCalls, atStop>>
    /\ UNCHANGED notSched

(***************************************************************************)
(* Analytics: DataService.generateUserAnalytics (dataService.js 203-264),  *)
(* getPeriodRange (331-358) and DataModel.upsertUserAnalytics              *)
(* (dataModel.js 99-173) over table user_analytics (part_000 183-233).     *)
(*                                                                         *)
(* Instants are seconds since 2025-01-01T00:00 local time; endOf(..) is    *)
(* the last instant of the period at that resolution.                      *)
(***************************************************************************)
\* Number of generateUserAnalytics calls explored.
MaxAnaCalls == 2

Null == "null"

SecondsPerDay == 86400

\* Day of the week of 2025-01-01 (0 = Sunday): a Wednesday.
JanFirstWeekday == 3

\* First day (0-based day of the year) of each month of 2025, and of 2026.
MonthStarts == <<0, 31, 59, 90, 120, 151, 181, 212, 243, 273, 304, 334, 365>>

DayOf(t) == t \div SecondsPerDay

Weekday(d) == (JanFirstWeekday + d) % 7

MonthOf(d) == CHOOSE m \in 1..12 : MonthStarts[m] <= d /\ d < MonthStarts[m + 1]

\* The period types getPeriodRange has a case for.
PeriodTypes == {"DAILY", "WEEKLY", "MONTHLY", "YEARLY"}

\* getPeriodRange with endOf(..) replaced by startOf(..) of the day.
PeriodRangeEndsAtStart(t, periodType) ==
    [periodStart |-> DayOf(t) * SecondsPerDay, periodEnd |-> DayOf(t) * SecondsPerDay]

\* getPeriodRange: moment's startOf / endOf of day, week (the default locale's
\* week, which starts on Sunday), month and year; the default case throws.
PeriodRange(t, periodType) ==
    LET d == DayOf(t)
        first == CASE periodType = "DAILY"   -> d
                   [] periodType = "WEEKLY"  -> d - Weekday(d)
                   [] periodType = "MONTHLY" -> MonthStarts[MonthOf(d)]
                   [] periodType = "YEARLY"  -> 0
        next  == CASE periodType = "DAILY"   -> d + 1
                   [] periodType = "WEEKLY"  -> d - Weekday(d) + 7
                   [] periodType = "MONTHLY" -> MonthStarts[MonthOf(d) + 1]
                   [] periodType = "YEARLY"  -> 365
    IN  [periodStart |-> first * SecondsPerDay,
         periodEnd   |-> next * SecondsPerDay - 1]

\* JavaScript `x || 0` on a number and `x || false` on a boolean: the falsy
\* value is replaced by the default, anything else is kept.
OrZero(v) == IF v = 0 THEN 0 ELSE v

OrFalse(v) == IF v = FALSE THEN FALSE ELSE v

\* Amounts are whole cents, as the two-decimal amounts of the source give
\* them to parseFloat; a quotient is kept exact, as numerator and denominator.
Whole(n) == [n |-> n, d |-> 1]

\* `x || 0` on a quotient.
OrZeroQ(q) == IF q.n = 0 THEN Whole(0) ELSE q

RECURSIVE SumOf(_, _)
\* deposits.reduce((sum, dep) => sum + parseFloat(dep[field] || 0), 0)
SumOf(rows, field) ==
    IF rows = << >> THEN 0 ELSE rows[1][field] + SumOf(Tail(rows), field)

\* bets.filter(bet => bet.result === result)
WithResult(bets, result) == SelectSeq(bets, LAMBDA bet : bet.result = result)

\* calculateDepositMetrics (442-452), without the two dates.
CalculateDepositMetrics(deposits) ==
    IF Len(deposits) = 0
    THEN [total |-> 0, count |-> 0, avg |-> Whole(0)]
    ELSE [total |-> SumOf(deposits, "amount"),
          count |-> Len(deposits),
          avg   |-> [n |-> SumOf(deposits, "amount"), d |-> Len(deposits)]]

\* calculateResultMetrics (482-494).
CalculateResultMetrics(bets) ==
    IF Len(bets) = 0
    THEN [wins |-> 0, losses |-> 0]
    ELSE [wins   |-> SumOf(WithResult(bets, "win"), "win_amount"),
          losses |-> SumOf(WithResult(bets, "loss"), "amount")]

\* calculateBetMetrics (454-464), without the two dates and the average.
CalculateBetMetrics(bets) ==
    IF Len(bets) = 0
    THEN [total |-> 0, count |-> 0]
    ELSE [total |-> SumOf(bets, "amount"), count |-> Len(bets)]

\* calculateActivityMetrics (466-480), its days_active: the distinct days of
\* the transactions and bets.
CalculateActivityMetrics(transactions, bets) ==
    [days_active |-> Cardinality({(transactions \o bets)[i].day :
                                     i \in 1..(Len(transactions) + Len(bets))})]

\* The default of getConfig('cpa_validation_rules', ..) (498-508) and of
\* getConfig('cpa_level_amounts', ..) (519-521), amounts in cents.
DefaultCpaRules ==
    [operator |-> "AND",
     criteria |-> <<[type |-> "deposit", value |-> 3000, enabled |-> TRUE],
                    [type |-> "bets", value |-> 10, enabled |-> TRUE],
                    [type |-> "bet_amount", value |-> 10000, enabled |-> TRUE],
                    [type |-> "days_active", value |-> 3, enabled |-> TRUE]>>]

DefaultConfig ==
    [cpa_validation_rules |-> DefaultCpaRules, cpa_level_amounts |-> [level_1 |-> 5000]]

\* The thresholds written in calculateCpaMetrics (516).
CpaDepositThreshold == 3000

CpaBetCountThreshold == 10

CpaBetAmountThreshold == 10000

\* const qualified = totalDeposits >= 30 && betCount >= 10 && totalBets >= 100
CpaQualified(deposits, bets) ==
    /\ SumOf(deposits, "amount") >= CpaDepositThreshold
    /\ Len(bets) >= CpaBetCountThreshold
    /\ SumOf(bets, "amount") >= CpaBetAmountThreshold

\* calculateCpaMetrics (496-531), without the date: the rules it reads from
\* the configuration are not used, the level-1 amount is.
CalculateCpaMetrics(deposits, bets, config) ==
    IF CpaQualified(deposits, bets)
    THEN [qualified |-> TRUE, amount |-> config.cpa_level_amounts.level_1]
    ELSE [qualified |-> FALSE, amount |-> 0]

\* What getUserDataForPeriod returns for a user row and the transactions,
\* deposits and bets of the period (394-407).
UserData(affiliateId, transactions, deposits, bets, config) ==
    [affiliate_id |-> affiliateId,
     deposits |-> CalculateDepositMetrics(deposits),
     bets     |-> CalculateBetMetrics(bets),
     activity |-> CalculateActivityMetrics(transactions, bets),
     results  |-> CalculateResultMetrics(bets),
     cpa      |-> CalculateCpaMetrics(deposits, bets, config)]

\* net_result with the losses left out.
NetResultOfWins(results) == OrZero(results.wins)

\* (userData.results?.wins || 0) - (userData.results?.losses || 0)
NetResult(results) == OrZero(results.wins) - OrZero(results.losses)

\* The analytics object generateUserAnalytics builds from userData (216-251).
BuildAnalytics(userId, periodType, range, userData) ==
    [user_id        |-> userId,
     affiliate_id   |-> userData.affiliate_id,
     period_type    |-> periodType,
     period_start   |-> range.periodStart,
     period_end     |-> range.periodEnd,
     total_deposits |-> OrZero(userData.deposits.total),
     deposit_count  |-> OrZero(userData.deposits.count),
     avg_deposit_amount |-> OrZeroQ(userData.deposits.avg),
     total_bets     |-> OrZero(userData.bets.total),
     bet_count      |-> OrZero(userData.bets.count),
     days_active    |-> OrZero(userData.activity.days_active),
     total_wins     |-> OrZero(userData.results.wins),
     total_losses   |-> OrZero(userData.results.losses),
     net_result     |-> NetResult(userData.results),
     cpa_qualified  |-> OrFalse(userData.cpa.qualified),
     cpa_amount     |-> OrZero(userData.cpa.amount)]

\* The columns of the ON CONFLICT target.
KeyFields == {"user_id", "period_type", "period_start"}

Key(row) == <<row.user_id, row.period_type, row.period_start>>

NonKey(row) == [f \in DOMAIN row \ KeyFields |-> row[f]]

\* The `values` array of upsertUserAnalytics (142-167).
UpsertValues(a) ==
    [a EXCEPT !.total_deposits = OrZero(@),
              !.deposit_count  = OrZero(@),
              !.avg_deposit_amount = OrZeroQ(@),
              !.total_wins     = OrZero(@),
              !.total_losses   = OrZero(@),
              !.net_result     = OrZero(@),
              !.total_bets     = OrZero(@),
              !.bet_count      = OrZero(@),
              !.days_active    = OrZero(@),
              !.cpa_qualified  = OrFalse(@),
              !.cpa_amount     = OrZero(@)]

\* A DECIMAL(.., 2) column that cuts the digits after the second decimal.
Decimal2Truncates(q) == q.n \div q.d

\* A value assigned to a DECIMAL(.., 2) column is rounded to whole cents,
\* halves away from zero (the amounts here are not negative).
Decimal2(q) == (2 * q.n + q.d) \div (2 * q.d)

\* The row as table user_analytics stores it (part_000 183-233).
Stored(v) == [v EXCEPT !.avg_deposit_amount = Decimal2(@)]

\* The statement with net_result left out of its DO UPDATE SET list.
UpsertUserAnalyticsKeepsNetResult(table, v) ==
    IF \E i \in 1..Len(table) : Key(table[i]) = Key(v)
    THEN [i \in 1..Len(table) |->
            IF Key(table[i]) = Key(v)
            THEN [v EXCEPT !.net_result = table[i].net_result]
            ELSE table[i]]
    ELSE Append(table, v)

\* INSERT INTO user_analytics .. ON CONFLICT (user_id, period_type,
\* period_start) DO UPDATE SET <every other column> = EXCLUDED.<column>.
UpsertUserAnalytics(table, v) ==
    IF \E i \in 1..Len(table) : Key(table[i]) = Key(v)
    THEN [i \in 1..Len(table) |-> IF Key(table[i]) = Key(v) THEN v ELSE table[i]]
    ELSE Append(table, v)

\* The users, period types and reference dates of the explored calls:
\* Sunday 2025-03-09 10:00 and Monday 2025-03-10 14:22.
AnaUsers == {42}

AnaPeriodTypes == PeriodTypes \cup {"HOURLY"}

RefDates == {67 * SecondsPerDay + 36000, 68 * SecondsPerDay + 51720}

\* The deposits and bets of the explored periods.
Deposit(amount) == [amount |-> amount, day |-> 0]

Win(amount, winAmount) ==
    [result |-> "win", amount |-> amount, win_amount |-> winAmount, day |-> 0]

Loss(amount) == [result |-> "loss", amount |-> amount, win_amount |-> 0, day |-> 0]

\* The row with its created_at on day d of the period.
OnDay(row, d) == [row EXCEPT !.day = d]

\* What getUserDataForPeriod may return for a user that exists: the source
\* changes between calls, so each call sees any of these.
UserDataSamples ==
    {UserData(5, << >>, << >>, << >>, DefaultConfig),
     UserData(5, << >>, <<Deposit(2000), Deposit(3000)>>, <<Win(1000, 2000), Loss(3000)>>,
              DefaultConfig)}

NoAnaCall == [pc |-> "none", userId |-> 0, periodType |-> "none", refDate |-> 0,
              analytics |-> Null]

AnaCallIds == 1..MaxAnaCalls

\* generateUserAnalytics up to the await of getUserDataForPeriod; an unknown
\* period type throws in getPeriodRange.
GenerateCall(userId, periodType, refDate) ==
    /\ nAnaCalls < MaxAnaCalls
    /\ nAnaCalls' = nAnaCalls + 1
    /\ anaCalls' = [anaCalls EXCEPT ![nAnaCalls + 1] =
                      [pc |-> IF periodType \in PeriodTypes THEN "reading" ELSE "threw",
                       userId |-> userId, periodType |-> periodType,
                       refDate |-> refDate, analytics |-> Null]]
    /\ UNCHANGED <<userAnalytics, lastWrite, configValues, affiliateAnalytics>>
    /\ UNCHANGED notAna

\* getUserDataForPeriod returned null (no user row, or a read failed and the
\* catch swallowed it): generateUserAnalytics returns null.
ReadsReturnNull(c) ==
    /\ anaCalls[c].pc = "reading"
    /\ anaCalls' = [anaCalls EXCEPT ![c].pc = "returnedNull"]
    /\ UNCHANGED <<userAnalytics, nAnaCalls, lastWrite, configValues, affiliateAnalytics>>
    /\ UNCHANGED notAna

\* getUserDataForPeriod returned the user's data: the analytics object is built
\* and upsertUserAnalytics is awaited.
ReadsReturn(c, userData) ==
    /\ anaCalls[c].pc = "reading"
    /\ anaCalls' = [anaCalls EXCEPT
         ![c].pc = "upserting",
         ![c].analytics = BuildAnalytics(anaCalls[c].userId, anaCalls[c].periodType,
                             PeriodRange(anaCalls[c].refDate, anaCalls[c].periodType),
                             userData)]
    /\ UNCHANGED <<userAnalytics, nAnaCalls, lastWrite, configValues, affiliateAnalytics>>
    /\ UNCHANGED notAna

\* The upsert statement executes (one atomic statement of the database).
UpsertReturns(c) ==
    /\ anaCalls[c].pc = "upserting"
    /\ LET v == Stored(UpsertValues(anaCalls[c].analytics)) IN
       /\ userAnalytics' = UpsertUserAnalytics(userAnalytics, v)
       /\ lastWrite' = [k \in DOMAIN lastWrite \cup {Key(v)} |->
                          IF k = Key(v) THEN NonKey(v) ELSE lastWrite[k]]
    /\ anaCalls' = [anaCalls EXCEPT ![c].pc = "returnedRow"]
    /\ UNCHANGED <<nAnaCalls, configValues, affiliateAnalytics>>
    /\ UNCHANGED notAna

\* The upsert statement fails (connection or constraint error): the error is
\* rethrown and the table is as before.
UpsertFails(c) ==
    /\ anaCalls[c].pc = "upserting"
    /\ anaCalls' = [anaCalls EXCEPT ![c].pc = "threw"]
    /\ UNCHANGED <<userAnalytics, nAnaCalls, lastWrite, configValues, affiliateAnalytics>>
    /\ UNCHANGED notAna

(***************************************************************************)
(* DataService.generateAffiliateAnalytics (dataService.js 266-327) and     *)
(* DataModel.upsertAffiliateAnalytics (dataModel.js 218-290) over table    *)
(* affiliate_analytics (part_000 237-282).  Its calls share anaCalls; the  *)
(* userId of such a call is the affiliate id.                              *)
(***************************************************************************)
\* The analytics object generateAffiliateAnalytics builds for an affiliate
\* with n users (281-317, 533-549): the estimates of the user and financial
\* metrics.
BuildAffiliateAnalytics(affiliateId, periodType, range, n) ==
    [affiliate_id        |-> affiliateId,
     period_type         |-> periodType,
     period_start        |-> range.periodStart,
     period_end          |-> range.periodEnd,
     total_users         |-> OrZero(n),
     total_user_deposits |-> OrZero(n * 100)]

AffiliateKey(row) == <<row.affiliate_id, row.period_type, row.period_start>>

\* INSERT INTO affiliate_analytics .. ON CONFLICT (affiliate_id, period_type,
\* period_start) DO UPDATE SET <every other column> = EXCLUDED.<column>.
UpsertAffiliateAnalytics(table, v) ==
    IF \E i \in 1..Len(table) : AffiliateKey(table[i]) = AffiliateKey(v)
    THEN [i \in 1..Len(table) |->
            IF AffiliateKey(table[i]) = AffiliateKey(v) THEN v ELSE table[i]]
    ELSE Append(table, v)

\* generateAffiliateAnalytics up to the await of getAffiliateDataForPeriod; an
\* unknown period type throws in getPeriodRange.
GenerateAffiliateCall(affiliateId, periodType, refDate) ==
    /\ nAnaCalls < MaxAnaCalls
    /\ nAnaCalls' = nAnaCalls + 1
    /\ anaCalls' = [anaCalls EXCEPT ![nAnaCalls + 1] =
                      [pc |-> IF periodType \in PeriodTypes
                              THEN "readingAffiliate" ELSE "threw",
                       userId |-> affiliateId, periodType |-> periodType,
                       refDate |-> refDate, analytics |-> Null]]
    /\ UNCHANGED <<userAnalytics, lastWrite, configValues, affiliateAnalytics>>
    /\ UNCHANGED notAna

\* getAffiliateDataForPeriod returned the data of an affiliate with n users
\* (null when it has none): the object is built and the upsert awaited.
AffiliateReadsReturn(c, n) ==
    /\ anaCalls[c].pc = "readingAffiliate"
    /\ anaCalls' = [anaCalls EXCEPT
         ![c].pc = IF n = 0 THEN "returnedNull" ELSE "upsertingAffiliate",
         ![c].analytics =
              IF n = 0 THEN Null
              ELSE BuildAffiliateAnalytics(anaCalls[c].userId, anaCalls[c].periodType,
                      PeriodRange(anaCalls[c].refDate, anaCalls[c].periodType), n)]
    /\ UNCHANGED <<userAnalytics, nAnaCalls, lastWrite, configValues, affiliateAnalytics>>
    /\ UNCHANGED notAna

\* The upsert statement of affiliate_analytics executes.
AffiliateUpsertReturns(c) ==
    /\ anaCalls[c].pc = "upsertingAffiliate"
    /\ affiliateAnalytics' = UpsertAffiliateAnalytics(affiliateAnalytics, anaCalls[c].analytics)
    /\ anaCalls' = [anaCalls EXCEPT ![c].pc = "returnedRow"]
    /\ UNCHANGED <<userAnalytics, nAnaCalls, lastWrite, configValues>>
    /\ UNCHANGED notAna

(***************************************************************************)
(* DataService.getUserDataForPeriod (dataService.js 360-412) read by read, *)
(* with DataModel.getExternalData (dataModel.js 473-520) over the tables   *)
(* of the external database.  After GenerateCall the pc of a call is       *)
(*   "reading"              awaiting getExternalData('users', ..)          *)
(*   "readingTransactions", "readingBets", "readingDeposits"               *)
(*   "calculatingCpa"       awaiting calculateCpaMetrics (getConfig)       *)
(*   "upserting", "returnedRow", "returnedNull", "threw" as before         *)
(***************************************************************************)
ExternalTables == {"users", "transactions", "bets", "deposits"}

\* limit = 1000 of getExternalData, scaled down.
ExternalDataLimit == 3

\* WHERE 1=1 with the filters that are given: created_at >= dateFrom,
\* created_at <= dateTo, user_id = userId.
Matches(row, filters) ==
    /\ ("dateFrom" \in DOMAIN filters) => row.created_at >= filters.dateFrom
    /\ ("dateTo" \in DOMAIN filters) => row.created_at <= filters.dateTo
    /\ ("userId" \in DOMAIN filters) => row.user_id = filters.userId

RECURSIVE NewestFirst(_)
\* ORDER BY created_at DESC
NewestFirst(rows) ==
    IF rows = {} THEN << >>
    ELSE LET newest == CHOOSE r \in rows : \A o \in rows : o.created_at <= r.created_at
         IN  <<newest>> \o NewestFirst(rows \ {newest})

\* LIMIT
Take(rows, limit) == SubSeq(rows, 1, IF limit < Len(rows) THEN limit ELSE Len(rows))

\* getExternalData(tableName, filters, limit)
GetExternalData(tableName, filters, limit) ==
    Take(NewestFirst({row \in external[tableName] : Matches(row, filters)}), limit)

\* The filters of the three reads of the period (372-391).
PeriodFilters(userId, range) ==
    [userId |-> userId, dateFrom |-> range.periodStart, dateTo |-> range.periodEnd]

\* The period of a call.
RangeOf(call) == PeriodRange(call.refDate, call.periodType)

\* A record with one more field.
With(record, field, value) ==
    [f \in DOMAIN record \cup {field} |-> IF f = field THEN value ELSE record[f]]

\* The catch block of getUserDataForPeriod went on with no rows instead of
\* returning null.
ReadFailedGoesOn(call) ==
    [call EXCEPT !.pc = "upserting",
                 !.analytics = BuildAnalytics(call.userId, call.periodType, RangeOf(call),
                                  UserData(0, << >>, << >>, << >>, configValues))]

\* The catch block of getUserDataForPeriod: null, which generateUserAnalytics
\* returns as it is.
ReadFailed(call) == [call EXCEPT !.pc = "returnedNull"]

\* getExternalData('users', {userId}, 1) returns: null without a row.
ReadUserReturns(c) ==
    /\ anaCalls[c].pc = "reading"
    /\ LET userData == GetExternalData("users", [userId |-> anaCalls[c].userId], 1) IN
       anaCalls' = [anaCalls EXCEPT ![c] =
                       IF Len(userData) = 0
                       THEN [anaCalls[c] EXCEPT !.pc = "returnedNull"]
                       ELSE With([anaCalls[c] EXCEPT !.pc = "readingTransactions"],
                                 "user", userData[1])]
    /\ UNCHANGED <<userAnalytics, nAnaCalls, lastWrite, configValues, affiliateAnalytics>>
    /\ UNCHANGED notAna

\* getExternalData of the transactions, the bets or the deposits of the
\* period returns, with the default limit.
ReadPeriodReturns(c, pc, tableName, next) ==
    /\ anaCalls[c].pc = pc
    /\ anaCalls' = [anaCalls EXCEPT ![c] =
                       With([anaCalls[c] EXCEPT !.pc = next], tableName,
                            GetExternalData(tableName,
                                            PeriodFilters(anaCalls[c].userId,
                                                          RangeOf(anaCalls[c])),
                                            ExternalDataLimit))]
    /\ UNCHANGED <<userAnalytics, nAnaCalls, lastWrite, configValues, affiliateAnalytics>>
    /\ UNCHANGED notAna

ReadTransactionsReturns(c) ==
    ReadPeriodReturns(c, "readingTransactions", "transactions", "readingBets")

ReadBetsReturns(c) == ReadPeriodReturns(c, "readingBets", "bets", "readingDeposits")

ReadDepositsReturns(c) ==
    ReadPeriodReturns(c, "readingDeposits", "deposits", "calculatingCpa")

\* One of the four getExternalData calls throws.
ReadFails(c) ==
    /\ anaCalls[c].pc \in {"reading", "readingTransactions", "readingBets",
                           "readingDeposits"}
    /\ anaCalls' = [anaCalls EXCEPT ![c] = ReadFailed(@)]
    /\ UNCHANGED <<userAnalytics, nAnaCalls, lastWrite, configValues, affiliateAnalytics>>
    /\ UNCHANGED notAna

\* calculateCpaMetrics returns (getConfig falls back to its default instead of
\* throwing): getUserDataForPeriod returns the metrics, generateUserAnalytics
\* builds the analytics object and awaits the upsert.
CpaMetricsReturn(c) ==
    /\ anaCalls[c].pc = "calculatingCpa"
    /\ anaCalls' = [anaCalls EXCEPT
         ![c].pc = "upserting",
         ![c].analytics =
             BuildAnalytics(anaCalls[c].userId, anaCalls[c].periodType,
                            RangeOf(anaCalls[c]),
                            UserData(anaCalls[c].user.affiliate_id,
                                     anaCalls[c].transactions, anaCalls[c].deposits,
                                     anaCalls[c].bets, configValues))]
    /\ UNCHANGED <<userAnalytics, nAnaCalls, lastWrite, configValues, affiliateAnalytics>>
    /\ UNCHANGED notAna

InitExternIdle == external = [t \in ExternalTables |-> {}]

InitAnaIdle ==
    /\ userAnalytics = << >>
    /\ anaCalls = [c \in AnaCallIds |-> NoAnaCall]
    /\ nAnaCalls = 0
    /\ lastWrite = << >>
    /\ configValues = DefaultConfig
    /\ affiliateAnalytics = << >>

(***************************************************************************)
(* Values of the rows that travel through the ETL pipeline.  A JavaScript  *)
(* value is modelled with its type: null, number, string (a sequence of    *)
(* one-character strings), Date, ISO-8601 string of an instant, boolean,   *)
(* NaN, and the two metadata objects the transformer attaches.             *)
(***************************************************************************)
NullV == [t |-> "null"]

NaNV == [t |-> "nan"]

Num(n) == [t |-> "num", n |-> n]

Str(s) == [t |-> "str", s |-> s]

DateV(n) == [t |-> "date", n |-> n]

IsoV(n) == [t |-> "iso", n |-> n]

BoolV(b) == [t |-> "bool", b |-> b]

\* JavaScript truthiness.
Truthy(v) ==
    CASE v.t = "null" -> FALSE
      [] v.t = "nan"  -> FALSE
      [] v.t = "num"  -> v.n # 0
      [] v.t = "str"  -> v.s # << >>
      [] v.t = "bool" -> v.b
      [] OTHER        -> TRUE

Whitespace == {" "}

DigitChars == <<"0", "1", "2", "3", "4", "5", "6", "7", "8", "9">>

IsDigit(c) == \E i \in 1..Len(DigitChars) : DigitChars[i] = c

DigitVal(c) == (CHOOSE i \in 1..Len(DigitChars) : DigitChars[i] = c) - 1

RECURSIVE TrimLeft(_)
TrimLeft(s) ==
    IF s # << >> /\ Head(s) \in Whitespace THEN TrimLeft(Tail(s)) ELSE s

RECURSIVE TrimRight(_)
TrimRight(s) ==
    IF s # << >> /\ s[Len(s)] \in Whitespace
    THEN TrimRight(SubSeq(s, 1, Len(s) - 1))
    ELSE s

\* String.prototype.trim
Trim(s) == TrimRight(TrimLeft(s))

RECURSIVE DigitsValue(_, _)
DigitsValue(s, acc) ==
    IF s # << >> /\ IsDigit(Head(s))
    THEN DigitsValue(Tail(s), 10 * acc + DigitVal(Head(s)))
    ELSE acc

\* The number parseFloat reads after white space and sign: the longest run of
\* digits, NaN when there is no digit.
SignedDigits(negative, d) ==
    IF d = << >> \/ ~IsDigit(Head(d))
    THEN NaNV
    ELSE Num(IF negative THEN 0 - DigitsValue(d, 0) ELSE DigitsValue(d, 0))

\* The optional sign of parseFloat.
AfterSpaces(r) ==
    IF r # << >> /\ Head(r) = "-" THEN SignedDigits(TRUE, Tail(r)) ELSE SignedDigits(FALSE, r)

\* parseFloat on a string: leading white space is skipped, then an optional
\* sign and the longest run of digits.  (The strings of the model carry no
\* fraction.)
ParseFloatChars(s) == AfterSpaces(TrimLeft(s))

\* parseFloat(value): the argument is converted to a string first.
ParseFloat(v) ==
    CASE v.t = "num" -> v
      [] v.t = "str" -> ParseFloatChars(v.s)
      [] v.t = "iso" -> Num(2025)
      [] OTHER       -> NaNV

UpperChars == <<"T", "R", "U", "E", "F", "A", "L", "S">>

LowerChars == <<"t", "r", "u", "e", "f", "a", "l", "s">>

\* String.prototype.toLowerCase
ToLowerCase(s) ==
    [i \in 1..Len(s) |->
        IF \E k \in 1..Len(UpperChars) : UpperChars[k] = s[i]
        THEN LowerChars[CHOOSE k \in 1..Len(UpperChars) : UpperChars[k] = s[i]]
        ELSE s[i]]

TrueChars == <<"t", "r", "u", "e">>

FalseChars == <<"f", "a", "l", "s", "e">>

\* /^[^\s@]+@[^\s@]+\.[^\s@]+$/.test(s)
EmailRegexTest(s) ==
    \E at \in 2..Len(s) :
       /\ s[at] = "@"
       /\ \A i \in 1..Len(s) : i # at => s[i] \notin Whitespace \cup {"@"}
       /\ \E dot \in (at + 2)..(Len(s) - 1) : s[dot] = "."

(***************************************************************************)
(* ETLConfig.mappings (config.js 71-222) for the tables whose rows are     *)
(* followed through the pipeline: users -> affiliates and transactions ->  *)
(* referrals.  Of the twelve users columns the four the validations and    *)
(* the loader key depend on are kept, and document, whose configured       *)
(* function can raise; transactions keeps all seven.                       *)
(***************************************************************************)
DataTables == {"users", "transactions"}

S_deposit == <<"d", "e", "p", "o", "s", "i", "t">>

S_bet == <<"b", "e", "t">>

S_withdrawal == <<"w", "i", "t", "h", "d", "r", "a", "w", "a", "l">>

S_completed == <<"c", "o", "m", "p", "l", "e", "t", "e", "d">>

S_approved == <<"a", "p", "p", "r", "o", "v", "e", "d">>

S_pending == <<"p", "e", "n", "d", "i", "n", "g">>

Mappings ==
    [users |->
       [sourceTable |-> "users", targetTable |-> "affiliates",
        primaryKey |-> "id", incrementalField |-> "updated_at",
        fieldMapping |-> [id |-> "external_user_id", username |-> "username",
                          email |-> "email", document |-> "document",
                          updated_at |-> "updated_at"],
        transformations |-> {"document"},
        validations |-> [required |-> <<"external_user_id", "username", "email">>,
                         email    |-> <<"email">>,
                         numeric  |-> << >>,
                         positive |-> << >>,
                         unique   |-> <<"external_user_id", "username", "email">>]],
     transactions |->
       [sourceTable |-> "transactions", targetTable |-> "referrals",
        primaryKey |-> "id", incrementalField |-> "created_at",
        fieldMapping |-> [id |-> "external_transaction_id",
                          user_id |-> "referred_user_id",
                          type |-> "transaction_type",
                          amount |-> "transaction_amount",
                          status |-> "validation_status",
                          created_at |-> "transaction_date",
                          updated_at |-> "updated_at"],
        transformations |-> {"validation_status", "transaction_type"},
        validations |-> [required |-> <<"external_transaction_id", "referred_user_id",
                                        "transaction_amount">>,
                         email    |-> << >>,
                         numeric  |-> <<"transaction_amount">>,
                         positive |-> <<"transaction_amount">>,
                         unique   |-> << >>]]]

\* mappings.transactions.filters: type IN (..), status IN (..), amount > 0;
\* users has none.  A row with a NULL in a filtered column does not pass.
PassesFilters(tableName, row) ==
    IF tableName = "transactions"
    THEN /\ row.type.t = "str" /\ row.type.s \in {S_deposit, S_bet}
         /\ row.status.t = "str" /\ row.status.s \in {S_completed, S_approved}
         /\ ParseFloat(row.amount).t = "num" /\ ParseFloat(row.amount).n > 0
    ELSE TRUE

\* What the call of a configured function yields when the function raises.
Raised == [t |-> "raised"]

\* value.replace(/[^\d]/g, ''): the digits of a string.
IsDigitChar(ch) == \E i \in 1..Len(DigitChars) : DigitChars[i] = ch

OnlyDigits(s) == SelectSeq(s, IsDigitChar)

\* mappings.users.transformations.document:
\*   value ? value.replace(/[^\d]/g, '') : null
\* Only a string has a replace method: on a truthy value of another type the
\* call raises a TypeError.
CleanDocument(value) ==
    IF ~Truthy(value) THEN NullV
    ELSE IF value.t = "str" THEN Str(OnlyDigits(value.s))
    ELSE Raised

\* The functions of mappings.users.transformations (document) and of
\* mappings.transactions.transformations; the latter return the upper-case
\* constants VALIDATED / PENDING and DEPOSIT / BET / WITHDRAWAL / OTHER.
TransformFunction(field, value, row) ==
    IF field = "document" THEN CleanDocument(value)
    ELSE IF field = "validation_status"
    THEN IF value = Str(S_completed)
            /\ "amount" \in DOMAIN row
            /\ ParseFloat(row.amount).t = "num"
            /\ ParseFloat(row.amount).n >= 50
         THEN Str(<<"V", "A", "L", "I", "D", "A", "T", "E", "D">>)
         ELSE Str(<<"P", "E", "N", "D", "I", "N", "G">>)
    ELSE IF value = Str(S_deposit) THEN Str(<<"D", "E", "P", "O", "S", "I", "T">>)
    ELSE IF value = Str(S_bet) THEN Str(<<"B", "E", "T">>)
    ELSE IF value = Str(S_withdrawal)
         THEN Str(<<"W", "I", "T", "H", "D", "R", "A", "W", "A", "L">>)
    ELSE Str(<<"O", "T", "H", "E", "R">>)

(***************************************************************************)
(* DataTransformer (dataTransformer.js).                                   *)
(***************************************************************************)
\* mapFields: the target record has the mapped name of every mapped column
\* the source row has.
MapFields(sourceRecord, fieldMapping) ==
    LET present == DOMAIN sourceRecord \cap DOMAIN fieldMapping IN
    [tf \in {fieldMapping[sf] : sf \in present} |->
        sourceRecord[CHOOSE sf \in present : fieldMapping[sf] = tf]]

\* The target columns whose name includes '_at', '_date' or 'date_'.
DateFields == {"updated_at", "transaction_date"}

\* The target columns whose name includes 'amount' or '_id', or is 'id'.
NumberFields == {"external_user_id", "external_transaction_id",
                 "referred_user_id", "transaction_amount"}

\* moment(value).isValid() for the values a date column carries: a Date, an
\* ISO string and a number are valid, the other strings of the model are not.
MomentIsValid(v) == v.t \in {"date", "iso", "num"}

\* applyDefaultTransformations on one field: each of the four steps tests the
\* value the field had on entry and overwrites the result of the steps before.
DefaultTransformField(field, value) ==
    LET cleaned == IF value.t = "str"
                   THEN IF Trim(value.s) = << >> THEN NullV ELSE Str(Trim(value.s))
                   ELSE value
        dated   == IF field \in DateFields /\ Truthy(value)
                   THEN IF MomentIsValid(value) THEN IsoV(value.n) ELSE NullV
                   ELSE cleaned
        number  == IF /\ field \in NumberFields
                      /\ value.t # "null"
                      /\ value # Str(<< >>)
                      /\ ParseFloat(value).t = "num"
                   THEN ParseFloat(value)
                   ELSE dated
    IN  IF value.t = "str" /\ ToLowerCase(value.s) \in {TrueChars, FalseChars}
        THEN BoolV(ToLowerCase(value.s) = TrueChars)
        ELSE number

ApplyDefaultTransformations(record) ==
    [f \in DOMAIN record |-> DefaultTransformField(f, record[f])]

\* The fields of the record whose configured function raises: the catch of
\* lines 141-146 logs one warning for each of them.
TransformWarnings(record, transformations, originalRecord) ==
    {f \in DOMAIN record \cap transformations :
        TransformFunction(f, record[f], originalRecord) = Raised}

\* Lines 130-148 of applyTransformations: the configured functions, applied to
\* the fields the record has.  A field whose function raises keeps its value.
ApplyConfigured(record, transformations, originalRecord) ==
    [f \in DOMAIN record |->
        IF /\ f \in transformations
           /\ f \notin TransformWarnings(record, transformations, originalRecord)
        THEN TransformFunction(f, record[f], originalRecord)
        ELSE record[f]]

TypeErrorMessage == <<"TypeError", "Assignment to constant variable.">>

\* applyTransformations with `let transformedRecord` in place of `const`.
ApplyTransformationsReassignable(record, transformations, originalRecord) ==
    [threw |-> FALSE,
     value |-> ApplyDefaultTransformations(
                  ApplyConfigured(record, transformations, originalRecord))]

\* applyTransformations: transformedRecord is declared `const` (line 130) and
\* assigned again on line 151, after applyDefaultTransformations returned:
\* the assignment throws a TypeError on every call.
ApplyTransformations(record, transformations, originalRecord) ==
    [threw |-> TRUE,
     error |-> TypeErrorMessage,
     value |-> ApplyDefaultTransformations(
                  ApplyConfigured(record, transformations, originalRecord))]

\* record[field] !== undefined && record[field] !== null
HasValue(record, field) == field \in DOMAIN record /\ record[field].t # "null"

\* One error per failing field of a rule, in the order of the configuration.
TagErrors(rule, failing) == [i \in 1..Len(failing) |-> <<rule, failing[i]>>]

SelectErrors(fields, rule, Fails(_)) == TagErrors(rule, SelectSeq(fields, Fails))

\* isNaN(parseFloat(..)) and parseFloat(..) <= 0 of the numeric and positive
\* rules.
IsNaN(p) == p.t = "nan"

NotPositive(p) == p.t = "num" /\ p.n <= 0

\* validateRecord: the errors of the required, email, numeric and positive
\* rules, in that order.  (No mapping configures maxLength.)
ValidationErrors(record, validations) ==
    LET RequiredFails(f) == ~(f \in DOMAIN record /\ Truthy(record[f]))
        EmailFails(f)    == /\ f \in DOMAIN record /\ Truthy(record[f])
                            /\ ~(record[f].t = "str" /\ EmailRegexTest(record[f].s))
        NumericFails(f)  == HasValue(record, f) /\ IsNaN(ParseFloat(record[f]))
        PositiveFails(f) == HasValue(record, f) /\ NotPositive(ParseFloat(record[f]))
    IN  SelectErrors(validations.required, "required", RequiredFails)
        \o SelectErrors(validations.email, "email", EmailFails)
        \o SelectErrors(validations.numeric, "numeric", NumericFails)
        \o SelectErrors(validations.positive, "positive", PositiveFails)

\* validateRecord also stores validations.unique on the record it validates.
WithUniqueFields(record, validations) ==
    IF validations.unique = << >>
    THEN record
    ELSE [f \in DOMAIN record \cup {"_unique_fields"} |->
            IF f = "_unique_fields"
            THEN [t |-> "list", l |-> validations.unique]
            ELSE record[f]]

\* What validateRecord returns: { isValid, errors, record }.
ValidationResult(record, validations, errors) ==
    [isValid |-> errors = << >>,
     errors  |-> errors,
     record  |-> WithUniqueFields(record, validations)]

ValidateRecord(record, validations) ==
    ValidationResult(record, validations, ValidationErrors(record, validations))

\* transformTable attaches _etl_metadata to a record that passed validation.
WithEtlMetadata(record, mapping, sourceRecord) ==
    [f \in DOMAIN record \cup {"_etl_metadata"} |->
        IF f = "_etl_metadata"
        THEN [t |-> "meta",
              source_table |-> mapping.sourceTable,
              target_table |-> mapping.targetTable,
              source_id |-> IF mapping.primaryKey \in DOMAIN sourceRecord
                            THEN sourceRecord[mapping.primaryKey] ELSE NullV]
        ELSE record[f]]

\* The loop body of transformTable after validateRecord returned.
AfterValidation(mapping, sourceRecord, validation) ==
    IF validation.isValid
    THEN [accepted |-> TRUE,
          record |-> WithEtlMetadata(validation.record, mapping, sourceRecord)]
    ELSE [accepted |-> FALSE, sourceRecord |-> sourceRecord,
          errors |-> validation.errors]

\* The loop body of transformTable after applyTransformations: an exception
\* is caught by the try of the loop and the row is rejected with its message.
AfterTransformations(mapping, sourceRecord, applied) ==
    IF applied.threw
    THEN [accepted |-> FALSE, sourceRecord |-> sourceRecord,
          errors |-> <<applied.error>>]
    ELSE AfterValidation(mapping, sourceRecord,
                         ValidateRecord(applied.value, mapping.validations))

\* A loop body that remembers the rows of the earlier calls and rejects a row
\* it has seen before.
TransformRecordOncePerRow(mapping, sourceRecord) ==
    IF \E k \in 1..Len(mapLog) :
          /\ ~mapLog[k].threw
          /\ \E i \in 1..Len(mapLog[k].sourceData) : mapLog[k].sourceData[i] = sourceRecord
    THEN [accepted |-> FALSE, sourceRecord |-> sourceRecord,
          errors |-> <<<<"duplicate", mapping.primaryKey>>>>]
    ELSE AfterTransformations(mapping, sourceRecord,
            ApplyTransformations(MapFields(sourceRecord, mapping.fieldMapping),
                                 mapping.transformations, sourceRecord))

\* The body of the loop of transformTable for one source row.
TransformRecord(mapping, sourceRecord) ==
    AfterTransformations(mapping, sourceRecord,
        ApplyTransformations(MapFields(sourceRecord, mapping.fieldMapping),
                             mapping.transformations, sourceRecord))

\* The record is pushed on transformedData, or the row on rejectedRecords.
Collect(acc, r) ==
    IF r.accepted
    THEN [acc EXCEPT !.transformedData = Append(@, r.record)]
    ELSE [acc EXCEPT !.rejectedRecords =
             Append(@, [sourceRecord |-> r.sourceRecord, errors |-> r.errors])]

\* The loop of transformTable over the source rows, in order.
RECURSIVE TransformRows(_, _, _)
TransformRows(mapping, sourceData, acc) ==
    IF sourceData = << >>
    THEN acc
    ELSE TransformRows(mapping, Tail(sourceData),
                       Collect(acc, TransformRecord(mapping, Head(sourceData))))

\* transformTable: what it returns (the stats of the result are the lengths of
\* the two lists).
TransformTable(tableName, sourceData) ==
    TransformRows(Mappings[tableName], sourceData,
                  [transformedData |-> << >>, rejectedRecords |-> << >>])

(***************************************************************************)
(* Source rows handed to the transformer and kept in the source tables.    *)
(* Instants of the ETL pipeline count quarter hours.                       *)
(***************************************************************************)
\* Longest batch handed to transformTable.
MaxMapBatch == 3

UserRow(id, username, email, updatedAt) ==
    [id |-> Num(id), username |-> Str(username), email |-> Str(email),
     updated_at |-> DateV(updatedAt)]

\* ann with a good e-mail; bob whose e-mail has no '@'; a blank user name
\* with a good e-mail padded with a space; ann again under another e-mail;
\* dan with the e-mail of ann.
UserRows ==
    {UserRow(1, <<"a", "n", "n">>, <<"a", "@", "b", ".", "c">>, 5),
     UserRow(2, <<"b", "o", "b">>, <<"b", ".", "o", "b">>, 6),
     UserRow(3, <<" ">>, <<"c", "@", "d", ".", "e", " ">>, 7),
     UserRow(1, <<"a", "n", "2">>, <<"x", "@", "y", ".", "z">>, 8),
     UserRow(4, <<"d", "a", "n">>, <<"a", "@", "b", ".", "c">>, 9)}

TransactionRow(id, userId, type, amount, status, createdAt) ==
    [id |-> Num(id), user_id |-> userId, type |-> Str(type), amount |-> amount,
     status |-> Str(status), created_at |-> DateV(createdAt)]

\* The source table transactions has no updated_at column.  A completed
\* deposit of 50; an approved bet whose amount reads " 7"; a completed deposit
\* of -5; a pending withdrawal without a user whose amount is not a number.
TransactionRows ==
    {TransactionRow(11, Num(1), S_deposit, Num(50), S_completed, 5),
     TransactionRow(12, Num(2), S_bet, Str(<<" ", "7">>), S_approved, 7),
     TransactionRow(13, Num(1), S_deposit, Num(0 - 5), S_completed, 8),
     TransactionRow(14, NullV, S_withdrawal, Str(<<"x">>), S_pending, 9)}

SampleRows(tableName) == IF tableName = "users" THEN UserRows ELSE TransactionRows

\* Calls of transformTable on one DataTransformer instance.
MaxMapCalls == 2

\* Longest batch of a call when several calls follow each other.
MaxCallBatch == 2

\* A users row with a document column.
WithDocument(row, document) ==
    [f \in DOMAIN row \cup {"document"} |-> IF f = "document" THEN document ELSE row[f]]

\* ann and bob as above; ann with a formatted document, with a document the
\* driver returns as a number, and with no document.
DocumentRows ==
    {UserRow(1, <<"a", "n", "n">>, <<"a", "@", "b", ".", "c">>, 5),
     UserRow(2, <<"b", "o", "b">>, <<"b", ".", "o", "b">>, 6),
     WithDocument(UserRow(1, <<"a", "n", "n">>, <<"a", "@", "b", ".", "c">>, 5),
                  Str(<<"1", ".", "2">>)),
     WithDocument(UserRow(1, <<"a", "n", "n">>, <<"a", "@", "b", ".", "c">>, 5), Num(12)),
     WithDocument(UserRow(1, <<"a", "n", "n">>, <<"a", "@", "b", ".", "c">>, 5), NullV)}

CallRows(tableName) ==
    IF tableName = "users" THEN DocumentRows
    ELSE IF tableName = "transactions" THEN TransactionRows
    ELSE {[id |-> Num(1)]}

\* The sequences of at most n rows of set S.
SeqsUpTo(S, n) == UNION {[1..k -> S] : k \in 0..n}

(***************************************************************************)
(* One call of DataTransformer.transformTable.  The function has no await  *)
(* in its body: the whole batch is one step.                               *)
(***************************************************************************)
\* Counters of a loop whose catch block pushes the row on the rejected list
\* and on stats.errors without recordsRejected++.
TransformTableReturnsUncountedCatch(sourceData, result) ==
    /\ mapResult' = result
    /\ transformationStats' =
         [recordsProcessed   |-> transformationStats.recordsProcessed + Len(sourceData),
          recordsTransformed |-> transformationStats.recordsTransformed
                                   + Len(result.transformedData),
          recordsRejected    |-> transformationStats.recordsRejected
                                   + Cardinality({i \in 1..Len(result.rejectedRecords) :
                                        result.rejectedRecords[i].errors # <<TypeErrorMessage>>}),
          errors |-> transformationStats.errors
                       + Cardinality({i \in 1..Len(result.rejectedRecords) :
                            result.rejectedRecords[i].errors = <<TypeErrorMessage>>})]

\* The result and the counters of transformationStats when transformTable
\* returns; errors counts the rows whose transformation threw.
TransformTableReturns(sourceData, result) ==
    /\ mapResult' = result
    /\ transformationStats' =
         [recordsProcessed   |-> transformationStats.recordsProcessed + Len(sourceData),
          recordsTransformed |-> transformationStats.recordsTransformed
                                   + Len(result.transformedData),
          recordsRejected    |-> transformationStats.recordsRejected
                                   + Len(result.rejectedRecords),
          errors |-> transformationStats.errors
                       + Cardinality({i \in 1..Len(result.rejectedRecords) :
                            result.rejectedRecords[i].errors = <<TypeErrorMessage>>})]

\* The source row after the loop body handled it: mapFields fills a new
\* object, applyTransformations and applyDefaultTransformations work on spread
\* copies, validateRecord stores _unique_fields on the copy, the configured
\* functions only read their row argument, and the rejected list keeps a
\* reference to the row without writing to it.
SourceRecordAfter(mapping, sourceRecord) == sourceRecord

\* What one call leaves behind for one source row: the outcome of the loop
\* body, the warnings logged by the catch of applyTransformations, and the
\* source row as it is afterwards.
RowOutcome(mapping, sourceRecord) ==
    [outcome  |-> TransformRecord(mapping, sourceRecord),
     warnings |-> TransformWarnings(MapFields(sourceRecord, mapping.fieldMapping),
                                    mapping.transformations, sourceRecord),
     sourceRecordAfter |-> SourceRecordAfter(mapping, sourceRecord)]

\* The stats member of the object transformTable returns (lines 100-112).
ResultStats(sourceData, result) ==
    [recordsProcessed   |-> Len(sourceData),
     recordsTransformed |-> Len(result.transformedData),
     recordsRejected    |-> Len(result.rejectedRecords)]

\* The record of a call that returned: its arguments, the object it returned
\* and the outcome of every row.
CallReturned(tableName, sourceData, result) ==
    [threw |-> FALSE, tableName |-> tableName, sourceData |-> sourceData,
     success |-> TRUE, result |-> result,
     stats |-> ResultStats(sourceData, result),
     rows |-> [i \in 1..Len(sourceData) |-> RowOutcome(Mappings[tableName], sourceData[i])]]

TransformTableCall(tableName, sourceData) ==
    /\ mapPc = "idle"
    /\ TransformTableReturns(sourceData, TransformTable(tableName, sourceData))
    /\ mapPc' = "returned"
    /\ mapTable' = tableName
    /\ mapInput' = sourceData
    /\ mapLog' = Append(mapLog, CallReturned(tableName, sourceData,
                                             TransformTable(tableName, sourceData)))
    /\ UNCHANGED notMap

\* A later call on the same DataTransformer instance.
TransformTableNextCall(tableName, sourceData) ==
    /\ mapPc \in {"returned", "threw"}
    /\ Len(mapLog) < MaxMapCalls
    /\ TransformTableReturns(sourceData, TransformTable(tableName, sourceData))
    /\ mapPc' = "returned"
    /\ mapTable' = tableName
    /\ mapInput' = sourceData
    /\ mapLog' = Append(mapLog, CallReturned(tableName, sourceData,
                                             TransformTable(tableName, sourceData)))
    /\ UNCHANGED notMap

\* transformTable for a table ETLConfig.mappings does not have: the Error of
\* line 20 is thrown before the loop, no counter moves.
TransformTableThrows(tableName, sourceData) ==
    /\ tableName \notin DOMAIN Mappings
    /\ Len(mapLog) < MaxMapCalls
    /\ mapPc' = "threw"
    /\ mapLog' = Append(mapLog, [threw |-> TRUE, tableName |-> tableName,
                                 sourceData |-> sourceData])
    /\ UNCHANGED <<mapTable, mapInput, mapResult, transformationStats>>
    /\ UNCHANGED notMap

InitMapIdle ==
    /\ mapPc = "idle"
    /\ mapTable = "none"
    /\ mapInput = << >>
    /\ mapLog = << >>
    /\ mapResult = [transformedData |-> << >>, rejectedRecords |-> << >>]
    /\ transformationStats = [recordsProcessed |-> 0, recordsTransformed |-> 0,
                              recordsRejected |-> 0, errors |-> 0]

\* The record validateRecord would be given for a source row, had
\* applyTransformations returned it.
TransformedValue(tableName, row) ==
    ApplyDefaultTransformations(
        ApplyConfigured(MapFields(row, Mappings[tableName].fieldMapping),
                        Mappings[tableName].transformations, row))

RuleErrors(tableName, row) ==
    ValidationErrors(TransformedValue(tableName, row), Mappings[tableName].validations)

SatisfiesRules(tableName, row) == RuleErrors(tableName, row) = << >>

(***************************************************************************)
(* DataLoader (dataService.js 1131-1576) against the target database.      *)
(*                                                                         *)
(* The target is PostgreSQL: a statement that fails inside a transaction   *)
(* aborts the transaction, every later statement of it fails with 25P02    *)
(* until ROLLBACK, and COMMIT of an aborted transaction rolls it back and  *)
(* reports no error.  The tables of the target belong to the affiliate     *)
(* service; their unique columns are taken to be the lookup key of         *)
(* findExistingRecord and the columns validations.unique announces.        *)
(***************************************************************************)
\* Longest batch handed to loadBatch.
MaxLoadBatch == 3

TargetTables == {Mappings[t].targetTable : t \in DataTables}

\* findExistingRecord, lines 1357-1362.
KeyField(mapping) ==
    IF mapping.targetTable = "referrals" THEN "external_transaction_id"
    ELSE IF mapping.targetTable = "bet_activities" THEN "external_bet_id"
    ELSE "external_user_id"

UniqueColumns(mapping) ==
    {KeyField(mapping)}
      \cup {mapping.validations.unique[i] : i \in 1..Len(mapping.validations.unique)}

\* const { _etl_metadata, _unique_fields, ...cleanRecord } = record
CleanRecord(record) ==
    [f \in DOMAIN record \ {"_etl_metadata", "_unique_fields"} |-> record[f]]

\* A row with the values of `record` in its unique columns would violate a
\* unique constraint against a row other than `self` (SQL NULLs never do).
UniqueViolation(rows, mapping, record, self) ==
    \E i \in 1..Len(rows), c \in UniqueColumns(mapping) :
       /\ i # self
       /\ c \in DOMAIN record /\ record[c].t # "null"
       /\ c \in DOMAIN rows[i] /\ rows[i][c] = record[c]

\* result.rows.length > 0 ? result.rows[0] : null; id is the index of the row
\* found, 0 for null.
FoundAmong(found) ==
    [code |-> "ok", id |-> IF found = {} THEN 0 ELSE CHOOSE i \in found : TRUE]

\* findExistingRecord for a key field: null without a query when the record
\* has no value for it, else SELECT .. WHERE keyField = value LIMIT 1.
FindByKey(txn, keyField, record) ==
    IF ~(keyField \in DOMAIN record /\ Truthy(record[keyField]))
    THEN [code |-> "ok", id |-> 0]
    ELSE IF txn.aborted
    THEN [code |-> "25P02", id |-> 0]
    ELSE FoundAmong({i \in 1..Len(txn.rows) :
                        /\ keyField \in DOMAIN txn.rows[i]
                        /\ txn.rows[i][keyField] = record[keyField]})

FindExistingRecord(txn, mapping, record) == FindByKey(txn, KeyField(mapping), record)

\* insertRecord: INSERT INTO target (fields of the record) VALUES (..).
InsertRecord(txn, mapping, record) ==
    IF txn.aborted
    THEN [code |-> "25P02", txn |-> txn]
    ELSE IF UniqueViolation(txn.rows, mapping, record, 0)
    THEN [code |-> "23505", txn |-> [txn EXCEPT !.aborted = TRUE]]
    ELSE [code |-> "ok", txn |-> [txn EXCEPT !.rows = Append(@, record)]]

\* updateRecord: UPDATE target SET <field = value for every field of the
\* record>, updated_at = NOW() WHERE id = ..  PostgreSQL rejects a SET list
\* that assigns a column twice (42601), which is the case as soon as the
\* record has an updated_at field of its own.
UpdateRecord(txn, mapping, record, id) ==
    IF txn.aborted
    THEN [code |-> "25P02", txn |-> txn]
    ELSE IF "updated_at" \in DOMAIN record
    THEN [code |-> "42601", txn |-> [txn EXCEPT !.aborted = TRUE]]
    ELSE IF UniqueViolation(txn.rows, mapping, record, id)
    THEN [code |-> "23505", txn |-> [txn EXCEPT !.aborted = TRUE]]
    ELSE [code |-> "ok",
          txn |-> [txn EXCEPT !.rows[id] =
                     [f \in DOMAIN @ \cup DOMAIN record \cup {"updated_at"} |->
                        IF f \in DOMAIN record THEN record[f]
                        ELSE IF f = "updated_at" THEN IsoV(now)
                        ELSE @[f]]]]

\* The try block of loadRecord after findExistingRecord returned: update the
\* row found, insert when none was.
WriteRecord(txn, mapping, cleanRecord, existing) ==
    IF existing.code # "ok" THEN [code |-> existing.code, txn |-> txn]
    ELSE IF existing.id # 0
    THEN UpdateRecord(txn, mapping, cleanRecord, existing.id)
    ELSE InsertRecord(txn, mapping, cleanRecord)

\* The counters of loadRecord, and whether it throws: the catch block counts
\* an error, swallows 23505 as a skip and rethrows anything else.
CountRecord(ls, existing, write) ==
    IF write.code = "ok"
    THEN [txn |-> write.txn, threw |-> FALSE,
          outcome |-> IF existing.id # 0 THEN "updated" ELSE "inserted",
          stats |-> IF existing.id # 0
                    THEN [ls EXCEPT !.recordsUpdated = @ + 1, !.recordsLoaded = @ + 1]
                    ELSE [ls EXCEPT !.recordsInserted = @ + 1, !.recordsLoaded = @ + 1]]
    ELSE IF write.code = "23505"
    THEN [txn |-> write.txn, threw |-> FALSE, outcome |-> "skipped",
          stats |-> [ls EXCEPT !.errors = @ + 1, !.recordsSkipped = @ + 1]]
    ELSE [txn |-> write.txn, threw |-> TRUE, outcome |-> "failed",
          stats |-> [ls EXCEPT !.errors = @ + 1]]

\* loadRecord once findExistingRecord returned.
LoadFound(txn, ls, mapping, cleanRecord, existing) ==
    CountRecord(ls, existing, WriteRecord(txn, mapping, cleanRecord, existing))

\* loadRecord on the record stripped of its metadata.
LoadClean(txn, ls, mapping, cleanRecord) ==
    LoadFound(txn, ls, mapping, cleanRecord,
              FindExistingRecord(txn, mapping, cleanRecord))

\* loadRecord: the transaction, the counters, the outcome, and whether it
\* throws.
LoadRecord(txn, ls, mapping, record) == LoadClean(txn, ls, mapping, CleanRecord(record))

\* COMMIT: the rows of the transaction become the table, unless the
\* transaction is aborted.
CommitRows(rows, txn) == IF txn.aborted THEN rows ELSE txn.rows

\* The record transformTable hands to the loader for a source row that passes
\* validation, and the same record without its updated_at field.
PipelineRecord(tableName, row) ==
    WithEtlMetadata(
        WithUniqueFields(TransformedValue(tableName, row), Mappings[tableName].validations),
        Mappings[tableName], row)

\* A record without one of its fields.
Without(record, field) == [f \in DOMAIN record \ {field} |-> record[f]]

\* The records loadBatch is given: those of the valid sample rows.
LoaderRecords(tableName) ==
    LET valid == {row \in SampleRows(tableName) : SatisfiesRules(tableName, row)} IN
    {PipelineRecord(tableName, row) : row \in valid}
      \cup {Without(PipelineRecord(tableName, row), "updated_at") : row \in valid}

\* loadBatch up to the first loadRecord: BEGIN.
LoadBatchCall(tableName, batch) ==
    /\ loadPc = "idle"
    /\ loadPc' = "inTransaction"
    /\ loadTable' = tableName
    /\ loadBatchRows' = batch
    /\ loadPos' = 1
    /\ loadTxn' = [rows |-> target[Mappings[tableName].targetTable], aborted |-> FALSE]
    /\ loadOutcomes' = << >>
    /\ targetAtBegin' = target
    /\ UNCHANGED <<target, now, loadStats, loadCommitted>>
    /\ UNCHANGED notLoad

\* The effect of a loadRecord that returns with result r.
LoadRecordReturned(r) ==
    /\ ~r.threw
    /\ loadTxn' = r.txn
    /\ loadStats' = r.stats
    /\ loadOutcomes' = Append(loadOutcomes, r.outcome)

\* loadRecord returns (the record was inserted, updated or skipped).
LoadRecordReturns ==
    /\ loadPc = "inTransaction" /\ loadPos <= Len(loadBatchRows)
    /\ LoadRecordReturned(
          LoadRecord(loadTxn, loadStats, Mappings[loadTable], loadBatchRows[loadPos]))
    /\ loadPos' = loadPos + 1
    /\ UNCHANGED <<target, now, loadPc, loadTable, loadBatchRows, loadCommitted, targetAtBegin>>
    /\ UNCHANGED notLoad

\* The effect of a loadRecord that throws with result r: ROLLBACK.
LoadRecordThrew(r) ==
    /\ r.threw
    /\ loadTxn' = [rows |-> target[Mappings[loadTable].targetTable], aborted |-> FALSE]
    /\ loadStats' = r.stats
    /\ loadOutcomes' = Append(loadOutcomes, r.outcome)

\* loadRecord throws: loadBatch issues ROLLBACK and rethrows.
LoadRecordThrows ==
    /\ loadPc = "inTransaction" /\ loadPos <= Len(loadBatchRows)
    /\ LoadRecordThrew(
          LoadRecord(loadTxn, loadStats, Mappings[loadTable], loadBatchRows[loadPos]))
    /\ loadPc' = "threw"
    /\ UNCHANGED <<target, now, loadPos, loadTable, loadBatchRows, loadCommitted, targetAtBegin>>
    /\ UNCHANGED notLoad

\* Every record went through loadRecord: COMMIT, and loadBatch returns.
LoadBatchCommit ==
    /\ loadPc = "inTransaction" /\ loadPos > Len(loadBatchRows)
    /\ target' = [target EXCEPT ![Mappings[loadTable].targetTable] = CommitRows(@, loadTxn)]
    /\ loadCommitted' = ~loadTxn.aborted
    /\ loadPc' = "returned"
    /\ UNCHANGED <<now, loadStats, loadPos, loadTable, loadBatchRows, loadTxn, loadOutcomes,
                   targetAtBegin>>
    /\ UNCHANGED notLoad

\* loadStats as the constructor of DataLoader leaves it.
NoLoadStats == [recordsLoaded |-> 0, recordsSkipped |-> 0, recordsUpdated |-> 0,
                recordsInserted |-> 0, errors |-> 0]

\* The clock starts at 02:30 of the day the instants count from.
StartOfClock == 10

InitDbEmpty ==
    /\ target = [t \in TargetTables |-> << >>]
    /\ now = StartOfClock
    /\ loadStats = NoLoadStats

InitLoadIdle ==
    /\ loadPc = "idle"
    /\ loadTable = "none"
    /\ loadBatchRows = << >>
    /\ loadPos = 0
    /\ loadTxn = [rows |-> << >>, aborted |-> FALSE]
    /\ loadOutcomes = << >>
    /\ loadCommitted = FALSE
    /\ targetAtBegin = [t \in TargetTables |-> << >>]

(***************************************************************************)
(* Two loadBatch calls at once: the loadTable of a fullSync job and of an  *)
(* incrementalSync job of the scheduler, on the same target table.  Both   *)
(* use the one DataLoader (and its loadStats), each loadBatch takes a      *)
(* client of its own from the pool, so each has its own transaction.  The  *)
(* transactions run at READ COMMITTED, the default: a statement sees the   *)
(* rows committed when it starts and the writes of its own transaction; an *)
(* INSERT that collides, on a unique index, with a row another open        *)
(* transaction inserted waits for that transaction to end, and so does an  *)
(* UPDATE of a row another open transaction updated.                       *)
(*   "finding"     awaiting findExistingRecord for batch[pos]              *)
(*   "writing"     awaiting insertRecord / updateRecord for batch[pos]     *)
(*   "committing"  awaiting COMMIT                                         *)
(*   "returned", "threw" (after ROLLBACK)                                  *)
(***************************************************************************)
LoadJobs == {"full", "incremental"}

\* The table both jobs load, and the longest batch of each.
CcTable == "transactions"

MaxCcBatch == 2

CcTarget == Mappings[CcTable].targetTable

NoCcTxn == [batch |-> << >>, pos |-> 0, found |-> [where |-> "none", idx |-> 0],
            inserted |-> << >>, updated |-> << >>, aborted |-> FALSE,
            outcomes |-> << >>, committed |-> FALSE]

InTransaction(j) == ccPc[j] \in {"finding", "writing", "committing"}

\* The committed rows with the updates of a transaction applied.
WithUpdates(rows, updated) ==
    [i \in 1..Len(rows) |-> IF i \in DOMAIN updated THEN updated[i] ELSE rows[i]]

\* The rows a statement of job j sees.
Visible(j) == WithUpdates(target[CcTarget], ccTxn[j].updated) \o ccTxn[j].inserted

\* The transaction of job j as the statements of loadRecord see it.
TxnOf(j) == [rows |-> Visible(j), aborted |-> ccTxn[j].aborted]

\* The record loadRecord is working on.
CcRecord(j) == CleanRecord(ccTxn[j].batch[ccTxn[j].pos])

\* Where the row findExistingRecord returned lives: among the committed rows
\* or among the rows the transaction inserted.
Located(existing, committed) ==
    IF existing.id = 0 THEN [where |-> "none", idx |-> 0]
    ELSE IF existing.id <= committed THEN [where |-> "committed", idx |-> existing.id]
    ELSE [where |-> "own", idx |-> existing.id - committed]

\* Two records collide on a unique column.
Collide(mapping, a, b) ==
    \E c \in UniqueColumns(mapping) :
       /\ c \in DOMAIN a /\ c \in DOMAIN b
       /\ a[c].t # "null" /\ a[c] = b[c]

\* The statement job j is about to execute has to wait for job k to end.
WaitsFor(j, k) ==
    /\ k # j /\ InTransaction(k)
    /\ IF ccTxn[j].found.where = "none"
       THEN /\ ccUnique
            /\ \E i \in 1..Len(ccTxn[k].inserted) :
                  Collide(Mappings[CcTable], CcRecord(j), ccTxn[k].inserted[i])
       ELSE /\ ccTxn[j].found.where = "committed"
            /\ ccTxn[j].found.idx \in DOMAIN ccTxn[k].updated

\* loadBatch: the client, BEGIN, and loadRecord up to findExistingRecord.
CcLoadBatchCall(j, batch) ==
    /\ ccPc[j] = "idle"
    /\ ccPc' = [ccPc EXCEPT ![j] = "finding"]
    /\ ccTxn' = [ccTxn EXCEPT ![j] = [NoCcTxn EXCEPT !.batch = batch, !.pos = 1]]
    /\ UNCHANGED <<target, now, loadStats, ccUnique>>
    /\ UNCHANGED <<schedVars, anaVars, mapVars, loadVars, syncVars, connVars, extVars,
                   runVars, clientVars, externVars, cronVars>>

\* The SELECT of findExistingRecord returns a row or none.  In an aborted
\* transaction it fails with 25P02: loadRecord counts the error and
\* rethrows, loadBatch issues ROLLBACK and rethrows.
CcFindReturns(j) ==
    /\ ccPc[j] = "finding"
    /\ IF FindExistingRecord(TxnOf(j), Mappings[CcTable], CcRecord(j)).code = "ok"
       THEN /\ ccPc' = [ccPc EXCEPT ![j] = "writing"]
            /\ ccTxn' = [ccTxn EXCEPT ![j].found =
                            Located(FindExistingRecord(TxnOf(j), Mappings[CcTable],
                                                       CcRecord(j)),
                                    Len(target[CcTarget]))]
            /\ UNCHANGED loadStats
       ELSE /\ ccPc' = [ccPc EXCEPT ![j] = "threw"]
            /\ ccTxn' = [ccTxn EXCEPT ![j].outcomes = Append(@, "failed"),
                                      ![j].inserted = << >>, ![j].updated = << >>]
            /\ loadStats' = [loadStats EXCEPT !.errors = @ + 1]
    /\ UNCHANGED <<target, now, ccUnique>>
    /\ UNCHANGED <<schedVars, anaVars, mapVars, loadVars, syncVars, connVars, extVars,
                   runVars, clientVars, externVars, cronVars>>

\* The row an UPDATE of loadRecord leaves: the fields of the record over
\* those of the row, and updated_at = NOW().
UpdatedRow(row, record) ==
    [f \in DOMAIN row \cup DOMAIN record \cup {"updated_at"} |->
        IF f \in DOMAIN record THEN record[f]
        ELSE IF f = "updated_at" THEN IsoV(now)
        ELSE row[f]]

\* insertRecord / updateRecord of job j on what it sees now: the SQLSTATE,
\* and the writes of the transaction afterwards.
CcWrite(j) ==
    LET t == ccTxn[j]
        record == CcRecord(j)
        self == IF t.found.where = "committed" THEN t.found.idx
                ELSE Len(target[CcTarget]) + t.found.idx
    IN  IF t.aborted THEN [code |-> "25P02", txn |-> t]
        ELSE IF t.found.where # "none" /\ "updated_at" \in DOMAIN record
        THEN [code |-> "42601", txn |-> [t EXCEPT !.aborted = TRUE]]
        ELSE IF /\ ccUnique
                /\ UniqueViolation(Visible(j), Mappings[CcTable], record,
                                   IF t.found.where = "none" THEN 0 ELSE self)
        THEN [code |-> "23505", txn |-> [t EXCEPT !.aborted = TRUE]]
        ELSE IF t.found.where = "none"
        THEN [code |-> "ok", txn |-> [t EXCEPT !.inserted = Append(@, record)]]
        ELSE IF t.found.where = "own"
        THEN [code |-> "ok",
              txn |-> [t EXCEPT !.inserted[t.found.idx] = UpdatedRow(@, record)]]
        ELSE [code |-> "ok",
              txn |-> [t EXCEPT !.updated =
                         [i \in DOMAIN t.updated \cup {t.found.idx} |->
                            IF i = t.found.idx
                            THEN UpdatedRow(Visible(j)[t.found.idx], record)
                            ELSE t.updated[i]]]]

\* The rest of loadRecord once its write returned with result r (of
\* CountRecord), and the loop of loadBatch: the next record, COMMIT after the
\* last one, ROLLBACK when loadRecord rethrows.
CcRecordDone(j, r) ==
    /\ loadStats' = r.stats
    /\ IF r.threw
       THEN /\ ccPc' = [ccPc EXCEPT ![j] = "threw"]
            /\ ccTxn' = [ccTxn EXCEPT ![j] =
                            [r.txn EXCEPT !.outcomes = Append(@, r.outcome),
                                          !.inserted = << >>, !.updated = << >>]]
       ELSE /\ ccPc' = [ccPc EXCEPT ![j] =
                          IF r.txn.pos < Len(r.txn.batch) THEN "finding" ELSE "committing"]
            /\ ccTxn' = [ccTxn EXCEPT ![j] =
                            [r.txn EXCEPT !.outcomes = Append(@, r.outcome),
                                          !.pos = @ + 1]]

\* insertRecord or updateRecord returns or fails, once no other transaction
\* holds it up.
CcWriteReturns(j) ==
    /\ ccPc[j] = "writing"
    /\ \A k \in LoadJobs : ~WaitsFor(j, k)
    /\ CcRecordDone(j, CountRecord(loadStats,
                                   [code |-> "ok",
                                    id |-> IF ccTxn[j].found.where = "none" THEN 0 ELSE 1],
                                   CcWrite(j)))
    /\ UNCHANGED <<target, now, ccUnique>>
    /\ UNCHANGED <<schedVars, anaVars, mapVars, loadVars, syncVars, connVars, extVars,
                   runVars, clientVars, externVars, cronVars>>

\* COMMIT: the writes of the transaction reach the table, unless the
\* transaction is aborted; loadBatch returns either way.
CcCommit(j) ==
    /\ ccPc[j] = "committing"
    /\ target' = [target EXCEPT ![CcTarget] =
                    IF ccTxn[j].aborted THEN @ ELSE Visible(j)]
    /\ ccTxn' = [ccTxn EXCEPT ![j].committed = ~ccTxn[j].aborted]
    /\ ccPc' = [ccPc EXCEPT ![j] = "returned"]
    /\ UNCHANGED <<now, loadStats, ccUnique>>
    /\ UNCHANGED <<schedVars, anaVars, mapVars, loadVars, syncVars, connVars, extVars,
                   runVars, clientVars, externVars, cronVars>>

InitCcIdle ==
    /\ ccPc = [j \in LoadJobs |-> "idle"]
    /\ ccTxn = [j \in LoadJobs |-> NoCcTxn]
    /\ ccUnique = TRUE

(***************************************************************************)
(* DataLoader.loadBatch (dataService.js 1278-1300) and the clients of      *)
(* targetPool.  targetPool.connect() hands out a client that is not        *)
(* checked out and waits while there is none (or fails on its connection   *)
(* timeout); client.release() returns the client.  The calls belong to the *)
(* loadTable loops of jobs that overlap.  loadRecord touches the client    *)
(* with its statements only, so here it just returns or throws.            *)
(*   "connecting"  awaiting targetPool.connect()                           *)
(*   "begin"       awaiting client.query('BEGIN')                          *)
(*   "record"      awaiting loadRecord of the next record                  *)
(*   "commit"      awaiting client.query('COMMIT')                         *)
(*   "rollback"    awaiting client.query('ROLLBACK') in the catch block    *)
(*   "returned", "threw"                                                   *)
(***************************************************************************)
\* Number of loadBatch calls, of clients of the pool (config.js 40: max,
\* scaled down) and of records of a batch that are explored.
MaxBatchCalls == 2

MaxPoolClients == 1

MaxClientBatch == 1

BatchCallIds == 1..MaxBatchCalls

ClientIds == 1..MaxPoolClients

NoBatchCall == [pc |-> "none", client |-> 0, left |-> 0, statements |-> << >>,
                released |-> 0]

\* The call holds a client of the pool.
HoldsClient(c) == batchCalls[c].pc \in {"begin", "record", "commit", "rollback"}

\* The clients that are checked out.
CheckedOut == {k \in ClientIds : poolClients[k]}

\* The finally block released the client only when the last statement
\* succeeded.
ReleaseUnlessFailed(c, ok, pc) ==
    /\ poolClients' = [poolClients EXCEPT ![batchCalls[c].client] = ~ok]
    /\ batchCalls' = [batchCalls EXCEPT
                         ![c].pc = pc,
                         ![c].released = IF ok THEN @ + 1 ELSE @,
                         ![c].statements =
                             Append(@, IF pc = "returned" THEN "COMMIT" ELSE "ROLLBACK")]

\* The finally block of loadBatch after the statement that ends the
\* transaction: client.release(), and the call returns or throws.
Release(c, ok, pc) ==
    /\ poolClients' = [poolClients EXCEPT ![batchCalls[c].client] = FALSE]
    /\ batchCalls' = [batchCalls EXCEPT
                         ![c].pc = pc,
                         ![c].released = @ + 1,
                         ![c].statements =
                             Append(@, IF pc = "returned" THEN "COMMIT" ELSE "ROLLBACK")]

\* loadBatch is called with a batch of n records.
ClientLoadBatchCall(n) ==
    /\ nBatchCalls < MaxBatchCalls
    /\ nBatchCalls' = nBatchCalls + 1
    /\ batchCalls' = [batchCalls EXCEPT ![nBatchCalls + 1] =
                         [NoBatchCall EXCEPT !.pc = "connecting", !.left = n]]
    /\ UNCHANGED poolClients
    /\ UNCHANGED notClient

\* targetPool.connect() returns client k, which no call holds.
ClientConnectReturns(c, k) ==
    /\ batchCalls[c].pc = "connecting"
    /\ ~poolClients[k]
    /\ poolClients' = [poolClients EXCEPT ![k] = TRUE]
    /\ batchCalls' = [batchCalls EXCEPT ![c].pc = "begin", ![c].client = k]
    /\ UNCHANGED nBatchCalls
    /\ UNCHANGED notClient

\* targetPool.connect() throws: the call is outside the try block, so
\* loadBatch throws without a client.
ClientConnectFails(c) ==
    /\ batchCalls[c].pc = "connecting"
    /\ batchCalls' = [batchCalls EXCEPT ![c].pc = "threw"]
    /\ UNCHANGED <<poolClients, nBatchCalls>>
    /\ UNCHANGED notClient

\* BEGIN returns, or throws into the catch block.
ClientBegin(c, ok) ==
    /\ batchCalls[c].pc = "begin"
    /\ batchCalls' = [batchCalls EXCEPT
                         ![c].statements = Append(@, "BEGIN"),
                         ![c].pc = IF ~ok THEN "rollback"
                                   ELSE IF batchCalls[c].left = 0 THEN "commit"
                                   ELSE "record"]
    /\ UNCHANGED <<poolClients, nBatchCalls>>
    /\ UNCHANGED notClient

\* loadRecord of the next record returns, or throws into the catch block.
ClientLoadRecord(c, ok) ==
    /\ batchCalls[c].pc = "record"
    /\ batchCalls' = [batchCalls EXCEPT
                         ![c].left = IF ok THEN @ - 1 ELSE @,
                         ![c].pc = IF ~ok THEN "rollback"
                                   ELSE IF batchCalls[c].left = 1 THEN "commit"
                                   ELSE "record"]
    /\ UNCHANGED <<poolClients, nBatchCalls>>
    /\ UNCHANGED notClient

\* COMMIT returns: the finally block, and loadBatch returns.
ClientCommitReturns(c) ==
    /\ batchCalls[c].pc = "commit"
    /\ Release(c, TRUE, "returned")
    /\ UNCHANGED nBatchCalls
    /\ UNCHANGED notClient

\* COMMIT throws into the catch block.
ClientCommitFails(c) ==
    /\ batchCalls[c].pc = "commit"
    /\ batchCalls' = [batchCalls EXCEPT ![c].statements = Append(@, "COMMIT"),
                                        ![c].pc = "rollback"]
    /\ UNCHANGED <<poolClients, nBatchCalls>>
    /\ UNCHANGED notClient

\* ROLLBACK returns and the catch block rethrows, or ROLLBACK itself throws:
\* the finally block runs either way.
ClientRollback(c, ok) ==
    /\ batchCalls[c].pc = "rollback"
    /\ Release(c, ok, "threw")
    /\ UNCHANGED nBatchCalls
    /\ UNCHANGED notClient

InitClientIdle ==
    /\ poolClients = [k \in ClientIds |-> FALSE]
    /\ batchCalls = [c \in BatchCallIds |-> NoBatchCall]
    /\ nBatchCalls = 0

(***************************************************************************)
(* The pipeline of ETLManager.syncTable (part_002 268-379): DataExtractor  *)
(* reads the source, DataTransformer maps, DataLoader writes the target.   *)
(***************************************************************************)
\* ETLConfig.general.batchSize, scaled down from 1000.
BatchSize == 2

\* Number of syncTable calls explored, and of ticks of the clock.
MaxSyncRuns == 2

MaxTicks == 2

\* One hour, in quarter hours.
Hour == 4

\* The values of `since` a caller passes; 0 is "none", falsy as null is.
Sinces == {0, 7}

Min(a, b) == IF a < b THEN a ELSE b

RECURSIVE SortedBy(_, _)
\* The rows of S in ascending order of a column (ORDER BY column).
SortedBy(S, column) ==
    IF S = {}
    THEN << >>
    ELSE LET first == CHOOSE r \in S : \A q \in S : r[column].n <= q[column].n IN
         <<first>> \o SortedBy(S \ {first}, column)

\* LIMIT batchSize OFFSET offset + 1
PageOneRowLate(sorted, offset) ==
    SubSeq(sorted, offset + 2, Min(Len(sorted), offset + 1 + BatchSize))

\* LIMIT batchSize OFFSET offset
Page(sorted, offset) == SubSeq(sorted, offset + 1, Min(Len(sorted), offset + BatchSize))

\* The rows the query of buildExtractQuery returns: the configured filters,
\* `incrementalField > lastSyncTime` when both are given, ORDER BY, LIMIT
\* batchSize, OFFSET.
ExtractQuery(tableName, incrementalField, lastSyncTime, orderBy, offset) ==
    Page(SortedBy({r \in source[tableName] :
                      /\ PassesFilters(tableName, r)
                      /\ (incrementalField # "" /\ lastSyncTime # 0) =>
                            r[incrementalField].n > lastSyncTime},
                  orderBy),
         offset)

\* ETLManager.getLastSyncTime: one hour before the wall clock.
GetLastSyncTime == now - Hour

RECURSIVE LoadRecords(_, _, _, _)
\* The loop of loadBatch after one loadRecord: stop when it threw.
AfterRecord(mapping, rest, r) ==
    IF r.threw
    THEN [threw |-> TRUE, txn |-> r.txn, stats |-> r.stats]
    ELSE LoadRecords(mapping, rest, r.txn, r.stats)

\* The loop of loadBatch: loadRecord for each record until one throws.
LoadRecords(mapping, batch, txn, ls) ==
    IF batch = << >>
    THEN [threw |-> FALSE, txn |-> txn, stats |-> ls]
    ELSE AfterRecord(mapping, Tail(batch), LoadRecord(txn, ls, mapping, Head(batch)))

\* The end of loadBatch: COMMIT, or ROLLBACK and rethrow on an error.
EndOfBatch(rows, r) ==
    [threw |-> r.threw,
     rows  |-> IF r.threw THEN rows ELSE CommitRows(rows, r.txn),
     stats |-> r.stats]

\* loadBatch: BEGIN, the records, COMMIT; ROLLBACK and rethrow on an error.
LoadBatch(mapping, batch, rows, ls) ==
    EndOfBatch(rows, LoadRecords(mapping, batch, [rows |-> rows, aborted |-> FALSE], ls))

RECURSIVE LoadBatches(_, _, _, _)
\* The loop of loadTable after one loadBatch: its catch ends the load.
AfterBatch(mapping, rest, r) ==
    IF r.threw
    THEN [success |-> FALSE, rows |-> r.rows, stats |-> r.stats]
    ELSE LoadBatches(mapping, rest, r.rows, r.stats)

\* loadTable: the records in chunks of batchSize, one loadBatch each; the
\* first batch that throws ends the load with success: false.
LoadBatches(mapping, records, rows, ls) ==
    IF records = << >>
    THEN [success |-> TRUE, rows |-> rows, stats |-> ls]
    ELSE AfterBatch(mapping,
                    SubSeq(records, Min(Len(records), BatchSize) + 1, Len(records)),
                    LoadBatch(mapping, SubSeq(records, 1, Min(Len(records), BatchSize)),
                              rows, ls))

\* What processBatch keeps of the result of loadTable.
LoadResult(ld) ==
    [success |-> ld.success, rows |-> ld.rows, stats |-> ld.stats,
     recordsLoaded |-> ld.stats.recordsLoaded]

\* processBatch after transformTable: no loadTable when no record is left.
LoadTransformed(tableName, transformedData, rows, ls) ==
    IF transformedData = << >>
    THEN [success |-> TRUE, rows |-> rows, stats |-> ls, recordsLoaded |-> 0]
    ELSE LoadResult(LoadBatches(Mappings[tableName], transformedData, rows, ls))

\* processBatch: transformTable, then loadTable unless no record is left.
ProcessBatch(tableName, data, rows, ls) ==
    LoadTransformed(tableName, TransformTable(tableName, data).transformedData, rows, ls)

\* hasMore as `result.rows.length > 0`.
HasMoreWhenNotEmpty(rows, batchSize) == Len(rows) > 0

\* metadata.hasMore of extractTable: result.rows.length === batchSize.
HasMore(rows, batchSize) == Len(rows) = batchSize

\* What the history keeps of an extractTable call that returned success: true.
ExtractResult(tableName, offset, data) ==
    [tableName |-> tableName, offset |-> offset, batchSize |-> BatchSize,
     data |-> data, hasMore |-> HasMore(data, BatchSize)]

\* No extractTable call has returned.
NoExtract ==
    [tableName |-> "none", offset |-> 0, batchSize |-> BatchSize,
     data |-> << >>, hasMore |-> FALSE]

\* The table names a caller passes: the configured ones and one that
\* ETLConfig.mappings does not have.
SyncTables == DataTables \cup {"deposits"}

\* The checks of extractIncremental and extractFull before their first read:
\* the table has a mapping and, for an incremental run, an incrementalField.
Supports(tableName, syncType) ==
    /\ tableName \in DataTables
    /\ syncType = "incremental" => Mappings[tableName].incrementalField # ""

\* No syncTable call in progress.
NoRun == [tableName |-> "none", syncType |-> "none", since |-> 0, lastSyncTime |-> 0,
          offset |-> 0, extracted |-> << >>, allBatchesOk |-> TRUE,
          batch |-> << >>, hasMore |-> FALSE, reads |-> 0, offsets |-> << >>,
          configOk |-> TRUE, extractOk |-> TRUE,
          targetBefore |-> [t \in TargetTables |-> << >>], statsBefore |-> NoLoadStats]

\* The object syncTable returns (totalTime left out).  A full run returns
\* {success, syncType, batches} after extractFull; an incremental run returns
\* {success, syncType, message, recordCount: 0} when the batch is empty and
\* the result of processBatch, {success, extract: {recordCount}, transform,
\* load: {recordsLoaded}} with syncType added, otherwise; the catch returns
\* {success: false, syncType, error}.  A member the object does not have is
\* not in the domain of the record.
SyncTableResult(syncType, success, extracted, reported, batches) ==
    IF ~success
    THEN [success |-> FALSE, syncType |-> syncType, error |-> "error"]
    ELSE IF syncType = "full"
    THEN [success |-> TRUE, syncType |-> syncType, batches |-> batches]
    ELSE IF extracted = << >>
    THEN [success |-> TRUE, syncType |-> syncType,
          message |-> "Nenhum dado novo para sincronizar", recordCount |-> 0]
    ELSE [success |-> TRUE, syncType |-> syncType,
          extract |-> [recordCount |-> Len(extracted)],
          load |-> [recordsLoaded |-> reported]]

\* What the history keeps of a syncTable call that returned.
Finished(run, success, reported, extracted, targetAfter, statsAfter) ==
    [tableName |-> run.tableName, syncType |-> run.syncType, since |-> run.since,
     result |-> SyncTableResult(run.syncType, success, extracted, reported,
                                Len(run.offsets)),
     lastSyncTime |-> run.lastSyncTime, extracted |-> extracted,
     success |-> success, recordsLoaded |-> reported,
     inserted |-> statsAfter.recordsInserted - run.statsBefore.recordsInserted,
     loaded |-> statsAfter.recordsLoaded - run.statsBefore.recordsLoaded,
     reads |-> run.reads, offsets |-> run.offsets,
     attempts |-> IF run.extractOk THEN run.reads ELSE run.reads + 1,
     configOk |-> run.configOk, extractOk |-> run.extractOk,
     batchesOk |-> run.allBatchesOk,
     targetBefore |-> run.targetBefore, targetAfter |-> targetAfter]

\* The arguments and the watermark of a syncTable call: the watermark of an
\* incremental run is `since || await this.getLastSyncTime(tableName)`.
Started(tableName, syncType, since) ==
    [NoRun EXCEPT
       !.tableName = tableName, !.syncType = syncType, !.since = since,
       !.lastSyncTime = IF syncType = "incremental"
                        THEN IF since # 0 THEN since ELSE GetLastSyncTime
                        ELSE 0,
       !.targetBefore = target, !.statsBefore = loadStats]

\* syncTable up to the first await of the extractor.  extractIncremental and
\* extractFull throw before any read when the table has no mapping (or no
\* incrementalField); the catch of syncTable returns {success: false, error,
\* syncType}.
SyncTableCall(tableName, syncType, since) ==
    /\ syncPc = "idle" /\ Len(syncLog) < MaxSyncRuns
    /\ IF Supports(tableName, syncType)
       THEN /\ syncPc' = "extracting"
            /\ syncRun' = Started(tableName, syncType, since)
            /\ UNCHANGED syncLog
       ELSE /\ syncLog' = Append(syncLog,
                  Finished([Started(tableName, syncType, since) EXCEPT !.configOk = FALSE],
                           FALSE, 0, << >>, target, loadStats))
            /\ UNCHANGED <<syncPc, syncRun>>
    /\ UNCHANGED <<target, now, loadStats, source, enabled, lastExtract>>
    /\ UNCHANGED notSync

\* The end of an incremental syncTable: the target and counters processBatch
\* left, and the result returned.
IncrementalProcessed(mapping, data, pb) ==
    /\ target' = [target EXCEPT ![mapping.targetTable] = pb.rows]
    /\ loadStats' = pb.stats
    /\ syncLog' = Append(syncLog,
          Finished([syncRun EXCEPT !.reads = 1, !.offsets = <<0>>,
                                   !.allBatchesOk = pb.success],
                   pb.success, pb.recordsLoaded, data, target', pb.stats))

\* The rest of an incremental syncTable once the batch is extracted.
IncrementalExtracted(tableName, mapping, data) ==
    /\ lastExtract' = ExtractResult(tableName, 0, data)
    /\ IncrementalProcessed(mapping, data,
          IF data = << >>
          THEN [success |-> TRUE, rows |-> target[mapping.targetTable],
                stats |-> loadStats, recordsLoaded |-> 0]
          ELSE ProcessBatch(tableName, data, target[mapping.targetTable], loadStats))

\* extractIncremental returns its one batch; syncTable returns at once when
\* it is empty, and after processBatch otherwise.
IncrementalExtractReturns ==
    /\ syncPc = "extracting" /\ syncRun.syncType = "incremental"
    /\ enabled[syncRun.tableName]
    /\ IncrementalExtracted(syncRun.tableName, Mappings[syncRun.tableName],
          ExtractQuery(syncRun.tableName, Mappings[syncRun.tableName].incrementalField,
                       syncRun.lastSyncTime,
                       Mappings[syncRun.tableName].incrementalField, 0))
    /\ syncPc' = "idle"
    /\ syncRun' = NoRun
    /\ UNCHANGED <<now, source, enabled>>
    /\ UNCHANGED notSync

\* extractTable returned the batch at the current offset to extractFull.
FullExtracted(tableName, data) ==
    /\ lastExtract' = ExtractResult(tableName, syncRun.offset, data)
    /\ syncRun' = [syncRun EXCEPT !.batch = data,
                                  !.hasMore = HasMore(data, BatchSize),
                                  !.reads = @ + 1]

\* extractTable without the test of mapping.enabled.
FullExtractReturnsWhenDisabled ==
    /\ syncPc = "extracting" /\ syncRun.syncType = "full"
    /\ FullExtracted(syncRun.tableName,
          ExtractQuery(syncRun.tableName, "", 0,
                       Mappings[syncRun.tableName].primaryKey, syncRun.offset))
    /\ syncPc' = "inCallback"
    /\ UNCHANGED <<target, now, loadStats, source, enabled, syncLog>>
    /\ UNCHANGED notSync

\* One turn of the loop of extractFull up to the callback: extractTable at
\* the current offset, ordered by the primary key; extractTable throws, and
\* returns success: false, when the mapping is not enabled.
FullExtractReturns ==
    /\ syncPc = "extracting" /\ syncRun.syncType = "full"
    /\ enabled[syncRun.tableName]
    /\ FullExtracted(syncRun.tableName,
          ExtractQuery(syncRun.tableName, "", 0,
                       Mappings[syncRun.tableName].primaryKey, syncRun.offset))
    /\ syncPc' = "inCallback"
    /\ UNCHANGED <<target, now, loadStats, source, enabled, syncLog>>
    /\ UNCHANGED notSync

\* The batch the callback was given is added to the history of the run.
Handed(run, data, ok) ==
    [run EXCEPT !.offsets = Append(@, run.offset),
                !.extracted = @ \o data,
                !.allBatchesOk = @ /\ ok,
                !.batch = << >>]

\* One turn of the loop of extractFull once the callback returned.
FullBatchProcessed(mapping, data, pb) ==
    /\ target' = [target EXCEPT ![mapping.targetTable] = pb.rows]
    /\ loadStats' = pb.stats
    /\ IF syncRun.hasMore
       THEN /\ syncRun' = [Handed(syncRun, data, pb.success) EXCEPT
                              !.offset = @ + BatchSize]
            /\ syncPc' = "extracting"
            /\ UNCHANGED syncLog
       ELSE /\ syncLog' = Append(syncLog,
                  Finished(Handed(syncRun, data, pb.success), TRUE,
                           pb.stats.recordsLoaded,
                           syncRun.extracted \o data, target', pb.stats))
            /\ syncPc' = "idle"
            /\ syncRun' = NoRun

\* The callback syncTable gives extractFull: processBatch on the batch.
FullBatchExtracted(tableName, mapping, data) ==
    FullBatchProcessed(mapping, data,
        ProcessBatch(tableName, data, target[mapping.targetTable], loadStats))

\* extractFull awaits the callback (processBatch, whose result is only
\* collected) and goes on to the next offset; after the first batch with
\* fewer than batchSize rows syncTable returns success: true.
FullBatchReturns ==
    /\ syncPc = "inCallback"
    /\ FullBatchExtracted(syncRun.tableName, Mappings[syncRun.tableName], syncRun.batch)
    /\ UNCHANGED <<now, source, enabled, lastExtract>>
    /\ UNCHANGED notSync

\* syncTable answering success: true to a failed extraction.
ExtractFailureUnreported ==
    /\ syncPc = "extracting"
    /\ syncLog' = Append(syncLog,
          Finished([syncRun EXCEPT !.extractOk = FALSE], TRUE, 0,
                   syncRun.extracted, target, loadStats))
    /\ syncPc' = "idle"
    /\ syncRun' = NoRun
    /\ UNCHANGED <<target, now, loadStats, source, enabled, lastExtract>>
    /\ UNCHANGED notSync

\* extractTable returns success: false: the extractor cannot connect, its
\* query fails, or the mapping of the table is not enabled.  syncTable
\* returns {success: false, error, syncType}.
ExtractFails ==
    /\ syncPc = "extracting"
    /\ syncLog' = Append(syncLog,
          Finished([syncRun EXCEPT !.extractOk = FALSE], FALSE, 0,
                   syncRun.extracted, target, loadStats))
    /\ syncPc' = "idle"
    /\ syncRun' = NoRun
    /\ UNCHANGED <<target, now, loadStats, source, enabled, lastExtract>>
    /\ UNCHANGED notSync

\* A quarter of an hour passes.
Tick ==
    /\ now < StartOfClock + MaxTicks
    /\ now' = now + 1
    /\ UNCHANGED <<target, loadStats, source, enabled, lastExtract, syncPc, syncRun, syncLog>>
    /\ UNCHANGED notSync

\* Every mapping is enabled unless its ETL_SYNC_* variable is 'false'.
AllEnabled == [t \in DataTables |-> TRUE]

InitSyncIdle ==
    /\ syncPc = "idle"
    /\ syncRun = NoRun
    /\ syncLog = << >>
    /\ lastExtract = NoExtract

(***************************************************************************)
(* ETLManager.runFullSync and runIncrementalSync (part_002 92-265): one    *)
(* syncTable per table of tablesToSync, a delay after each, and then the   *)
(* summary of summarizeResults (part_002 475-499).  runPc is               *)
(*   "syncing"   awaiting syncTable for the next table                     *)
(*   "delaying"  awaiting delay(3000) / delay(1000) after a table          *)
(*   "returned"  the run returned                                          *)
(***************************************************************************)
\* Object.keys(ETLConfig.mappings), in the order of the configuration.
ConfiguredTables == <<"users", "transactions">>

\* The `tables` option: absent, or a list of table names.
NoTables == [given |-> FALSE, names |-> << >>]

TablesGiven(names) == [given |-> TRUE, names |-> names]

IsEnabled(tableName) == enabled[tableName]

IsEnabledIncremental(tableName) ==
    enabled[tableName] /\ Mappings[tableName].incrementalField # ""

\* tablesToSync: a full run takes the list it is given as it is, and the
\* enabled tables otherwise; an incremental run keeps the enabled tables
\* with an incrementalField of either list.
TablesToSync(type, tables) ==
    IF type = "full"
    THEN IF tables.given THEN tables.names ELSE SelectSeq(ConfiguredTables, IsEnabled)
    ELSE SelectSeq(IF tables.given THEN tables.names ELSE ConfiguredTables,
                   IsEnabledIncremental)

\* The filter of an incremental run reads ETLConfig.mappings[table].enabled:
\* a name without mapping raises a TypeError, caught by the run.
FilterThrows(type, tables) ==
    /\ type = "incremental" /\ tables.given
    /\ \E i \in 1..Len(tables.names) : tables.names[i] \notin DataTables

\* result.extract.recordCount || 0 and result.load.recordsLoaded || 0 of a
\* successful result; a result without the member adds nothing.
ExtractCount(result) ==
    IF "extract" \in DOMAIN result THEN result.extract.recordCount ELSE 0

LoadCount(result) ==
    IF "load" \in DOMAIN result THEN result.load.recordsLoaded ELSE 0

\* if (result.success) of summarizeResults.
TableSucceeded(result) == result.success

RECURSIVE SumProcessed(_, _)
SumProcessed(results, names) ==
    IF names = {} THEN 0
    ELSE LET t == CHOOSE x \in names : TRUE IN
         (IF TableSucceeded(results[t]) THEN ExtractCount(results[t]) ELSE 0)
            + SumProcessed(results, names \ {t})

RECURSIVE SumLoaded(_, _)
SumLoaded(results, names) ==
    IF names = {} THEN 0
    ELSE LET t == CHOOSE x \in names : TRUE IN
         (IF TableSucceeded(results[t]) THEN LoadCount(results[t]) ELSE 0)
            + SumLoaded(results, names \ {t})

\* summarizeResults(results)
SummarizeResults(results) ==
    [totalTables      |-> Cardinality(DOMAIN results),
     successfulTables |-> Cardinality({t \in DOMAIN results : TableSucceeded(results[t])}),
     failedTables     |-> Cardinality({t \in DOMAIN results : ~results[t].success}),
     totalRecordsProcessed |-> SumProcessed(results, DOMAIN results),
     totalRecordsLoaded    |-> SumLoaded(results, DOMAIN results)]

NoSummary == [totalTables |-> 0, successfulTables |-> 0, failedTables |-> 0,
              totalRecordsProcessed |-> 0, totalRecordsLoaded |-> 0]

\* No run yet.  results is the object of the run, table name -> result;
\* base is the length of the syncTable history when the run began.
NoEtlRun == [type |-> "none", since |-> 0, tables |-> << >>, pos |-> 0,
             results |-> << >>, base |-> 0, success |-> FALSE,
             summary |-> NoSummary]

\* return {success: true, ..., results, summary}
RunReturns(run) ==
    [run EXCEPT !.success = TRUE, !.summary = SummarizeResults(run.results)]

\* runFullSync / runIncrementalSync up to the first syncTable.  With nothing
\* to sync the loop is skipped and the run returns the summary of {}.
RunSyncCall(type, tables, since) ==
    /\ runPc = "idle" /\ syncPc = "idle"
    /\ IF FilterThrows(type, tables)
       THEN /\ runPc' = "returned"
            /\ etlRun' = [NoEtlRun EXCEPT !.type = type, !.since = since]
       ELSE IF TablesToSync(type, tables) = << >>
       THEN /\ runPc' = "returned"
            /\ etlRun' = RunReturns([NoEtlRun EXCEPT !.type = type, !.since = since,
                                                      !.base = Len(syncLog)])
       ELSE /\ runPc' = "syncing"
            /\ etlRun' = [NoEtlRun EXCEPT !.type = type, !.since = since,
                                          !.tables = TablesToSync(type, tables),
                                          !.pos = 1, !.base = Len(syncLog)]
    /\ UNCHANGED <<schedVars, anaVars, mapVars, dbVars, loadVars, syncVars, connVars,
                   extVars, ccVars, clientVars, externVars, cronVars>>

\* this.syncTable(tableName, 'full', {skipValidation}) or
\* this.syncTable(tableName, 'incremental', {since}) for the table at pos.
RunSyncTable ==
    /\ runPc = "syncing"
    /\ Len(syncLog) = etlRun.base + etlRun.pos - 1
    /\ SyncTableCall(etlRun.tables[etlRun.pos], etlRun.type,
                     IF etlRun.type = "incremental" THEN etlRun.since ELSE 0)

\* syncTable returned: results[tableName] = tableResult.
SyncTableReturnsToRun ==
    /\ runPc = "syncing" /\ syncPc = "idle"
    /\ Len(syncLog) = etlRun.base + etlRun.pos
    /\ etlRun' = [etlRun EXCEPT !.results =
                     [t \in DOMAIN etlRun.results \cup {etlRun.tables[etlRun.pos]} |->
                        IF t = etlRun.tables[etlRun.pos]
                        THEN syncLog[Len(syncLog)].result
                        ELSE etlRun.results[t]]]
    /\ runPc' = "delaying"
    /\ UNCHANGED <<schedVars, anaVars, mapVars, dbVars, loadVars, syncVars, connVars,
                   extVars, ccVars, clientVars, externVars, cronVars>>

\* The delay after a table is over: the next table, or the summary and the
\* return after the last one.
RunDelayOver ==
    /\ runPc = "delaying"
    /\ IF etlRun.pos < Len(etlRun.tables)
       THEN /\ runPc' = "syncing"
            /\ etlRun' = [etlRun EXCEPT !.pos = @ + 1]
       ELSE /\ runPc' = "returned"
            /\ etlRun' = RunReturns(etlRun)
    /\ UNCHANGED <<schedVars, anaVars, mapVars, dbVars, loadVars, syncVars, connVars,
                   extVars, ccVars, clientVars, externVars, cronVars>>

InitRunIdle ==
    /\ runPc = "idle"
    /\ etlRun = NoEtlRun

(***************************************************************************)
(* DataExtractor.connect (dataExtractor.js 14-64) and DataLoader.connect   *)
(* (dataService.js 1147-1197): the two have the same body.  A call is one  *)
(* connect() from outside together with the recursive calls it makes; its  *)
(* pc is the await it is suspended at.                                     *)
(*   "attempting"  awaiting pool.connect() / SELECT 1 of a new Pool        *)
(*   "delaying"    awaiting delay(retryDelay) before the recursive call    *)
(*   "returned"    returned the pool, "threw" threw after the last attempt *)
(***************************************************************************)
\* Number of connect() calls explored, and of changes of the database.
MaxConnectCalls == 3

MaxFlips == 2

\* ETLConfig.general.maxRetries (its default).
MaxRetries == 3

\* `retries` is the connectionRetries the catch block last tested.
NoConnCall == [pc |-> "none", attempts |-> 0, delays |-> 0, retries |-> 0, sawUp |-> FALSE]

ConnCallIds == 1..MaxConnectCalls

\* The test of the catch block with `<=` in place of `<`.
RetryAllowedOnceMore(retries) == retries <= MaxRetries

\* if (this.connectionRetries < this.maxRetries)
RetryAllowed(retries) == retries < MaxRetries

\* The body of connect() up to its first await: an object that is connected
\* returns its pool, otherwise a new Pool is made and its connect() awaited.
EnterConnect(call) ==
    IF connIsConnected
    THEN [call EXCEPT !.pc = "returned"]
    ELSE [call EXCEPT !.pc = "attempting", !.attempts = @ + 1,
                      !.sawUp = @ \/ dbUp]

\* `this.sourcePool = new Pool(..)` of a connect() that is not connected: the
\* field refers to the new pool, whatever it referred to.
NewPool ==
    IF connIsConnected /\ sourcePool # 0
    THEN UNCHANGED <<sourcePool, madePools>>
    ELSE /\ madePools' = madePools + 1
         /\ sourcePool' = madePools + 1

\* connect() is called from outside.
ConnectCall ==
    /\ nConnCalls < MaxConnectCalls
    /\ nConnCalls' = nConnCalls + 1
    /\ connCalls' = [connCalls EXCEPT ![nConnCalls + 1] = EnterConnect(NoConnCall)]
    /\ NewPool
    /\ UNCHANGED <<dbUp, nFlips, connIsConnected, connectionRetries, endedPools>>
    /\ UNCHANGED notConn

\* The connection test succeeds: isConnected = true, connectionRetries = 0.
AttemptSucceeds(c) ==
    /\ connCalls[c].pc = "attempting" /\ dbUp
    /\ connIsConnected' = TRUE
    /\ connectionRetries' = 0
    /\ connCalls' = [connCalls EXCEPT ![c].pc = "returned"]
    /\ UNCHANGED <<dbUp, nFlips, nConnCalls, sourcePool, madePools, endedPools>>
    /\ UNCHANGED notConn

\* The connection test fails: the catch block counts the failure and either
\* starts the delay before the recursive call or throws.
AttemptFails(c) ==
    /\ connCalls[c].pc = "attempting" /\ ~dbUp
    /\ connectionRetries' = connectionRetries + 1
    /\ connCalls' = [connCalls EXCEPT
                        ![c].retries = connectionRetries + 1,
                        ![c].pc = IF RetryAllowed(connectionRetries + 1)
                                  THEN "delaying" ELSE "threw"]
    /\ UNCHANGED <<dbUp, nFlips, connIsConnected, nConnCalls, sourcePool, madePools,
                   endedPools>>
    /\ UNCHANGED notConn

\* delay(retryDelay) returns and connect() calls itself.
RetryDelayOver(c) ==
    /\ connCalls[c].pc = "delaying"
    /\ connCalls' = [connCalls EXCEPT ![c] = EnterConnect([@ EXCEPT !.delays = @ + 1])]
    /\ NewPool
    /\ UNCHANGED <<dbUp, nFlips, connIsConnected, connectionRetries, nConnCalls,
                   endedPools>>
    /\ UNCHANGED notConn

\* disconnect() of an object that is connected: the pool the field refers to
\* is ended and isConnected = false; the field keeps referring to it.
Disconnect ==
    /\ connIsConnected
    /\ connIsConnected' = FALSE
    /\ endedPools' = endedPools \cup {sourcePool}
    /\ UNCHANGED <<dbUp, nFlips, connectionRetries, connCalls, nConnCalls, sourcePool,
                   madePools>>
    /\ UNCHANGED notConn

\* The database goes down or comes up; the calls in progress when it comes
\* up have seen a reachable database.
DatabaseFlips ==
    /\ nFlips < MaxFlips
    /\ nFlips' = nFlips + 1
    /\ dbUp' = ~dbUp
    /\ connCalls' = [c \in ConnCallIds |->
                        IF connCalls[c].pc \in {"attempting", "delaying"}
                        THEN [connCalls[c] EXCEPT !.sawUp = TRUE]
                        ELSE connCalls[c]]
    /\ UNCHANGED <<connIsConnected, connectionRetries, nConnCalls, sourcePool, madePools,
                   endedPools>>
    /\ UNCHANGED notConn

InitConnIdle ==
    /\ dbUp = TRUE
    /\ nFlips = 0
    /\ connIsConnected = FALSE
    /\ connectionRetries = 0
    /\ connCalls = [c \in ConnCallIds |-> NoConnCall]
    /\ nConnCalls = 0
    /\ sourcePool = 0
    /\ madePools = 0
    /\ endedPools = {}

(***************************************************************************)
(* DataService.syncExternalData (dataService.js 39-132) with               *)
(* DataModel.createSyncLog / updateSyncLog (dataModel.js 32-95) over table *)
(* data_sync_logs (part_000 153-179).  The pc of a call:                   *)
(*   "creating"  awaiting getDataSyncSettings() and createSyncLog()        *)
(*   "reading"   awaiting getExternalData()                                *)
(*   "chunk"     awaiting processDataChunk() of the next chunk             *)
(*   "updating"  awaiting updateSyncLog() of the try block                 *)
(*   "failing"   awaiting updateSyncLog() of the catch block               *)
(*   "returned", "threw"                                                   *)
(***************************************************************************)
\* Number of syncExternalData calls explored, and of chunks of one call.
MaxExtCalls == 2

MaxExtChunks == 3

\* options.batchSize || syncSettings.batch_size || 1000
DefaultBatchSize == 1000

\* The batch sizes of the options or settings that are explored.
ExtBatchSizes == {1, DefaultBatchSize}

\* Math.min(batchSize, 100)
ChunkCap == 100

ExtCallIds == 1..MaxExtCalls

\* The numbers of rows the external table can return: none, one, and full
\* and half chunks up to MaxExtChunks chunks.
ExtRowCounts ==
    {0, 1} \cup {k * ChunkCap : k \in 1..MaxExtChunks}
           \cup {k * ChunkCap - (ChunkCap \div 2) : k \in 1..MaxExtChunks}

NoExtCall == [pc |-> "none", batchSize |-> 0, recordsProcessed |-> 0,
              recordsSuccess |-> 0, recordsFailed |-> 0, left |-> 0]

NoLogRow == [status |-> "none", records_processed |-> 0, records_success |-> 0,
             records_failed |-> 0]

\* The row createSyncLog inserts: the defaults of the table.
NewLogRow == [status |-> "RUNNING", records_processed |-> 0, records_success |-> 0,
              records_failed |-> 0]

\* CONSTRAINT positive_counts of data_sync_logs.
PositiveCounts(processed, success, failed) ==
    /\ processed >= 0 /\ success >= 0 /\ failed >= 0
    /\ success + failed <= processed

\* The values updateSyncLog is called with.
LogUpdate(call, status) ==
    [status |-> status, records_processed |-> call.recordsProcessed,
     records_success |-> call.recordsSuccess, records_failed |-> call.recordsFailed]

\* Length of the next chunk of _.chunk(externalData, Math.min(batchSize, 100)).
ChunkLength(call) == Min(Min(call.batchSize, ChunkCap), call.left)

\* A failed chunk counted as failed and as succeeded.
CountChunkTwice(call, ok) ==
    [call EXCEPT !.recordsSuccess = @ + ChunkLength(call),
                 !.recordsFailed = IF ok THEN @ ELSE @ + ChunkLength(call)]

\* The body of the loop after processDataChunk: the chunk is counted as
\* succeeded, or as failed when it threw.
CountChunk(call, ok) ==
    [call EXCEPT !.recordsSuccess = IF ok THEN @ + ChunkLength(call) ELSE @,
                 !.recordsFailed = IF ok THEN @ ELSE @ + ChunkLength(call)]

\* syncExternalData is called; batchSize comes from the options or settings.
SyncExternalDataCall(batchSize) ==
    /\ nExtCalls < MaxExtCalls
    /\ nExtCalls' = nExtCalls + 1
    /\ extCalls' = [extCalls EXCEPT ![nExtCalls + 1] =
                       [NoExtCall EXCEPT !.pc = "creating", !.batchSize = batchSize]]
    /\ UNCHANGED dataSyncLogs
    /\ UNCHANGED notExt

\* createSyncLog returns the inserted row.
CreateSyncLogReturns(c) ==
    /\ extCalls[c].pc = "creating"
    /\ dataSyncLogs' = [dataSyncLogs EXCEPT ![c] = NewLogRow]
    /\ extCalls' = [extCalls EXCEPT ![c].pc = "reading"]
    /\ UNCHANGED nExtCalls
    /\ UNCHANGED notExt

\* getDataSyncSettings or createSyncLog throws: no row, no try block yet.
CreateSyncLogFails(c) ==
    /\ extCalls[c].pc = "creating"
    /\ extCalls' = [extCalls EXCEPT ![c].pc = "threw"]
    /\ UNCHANGED <<nExtCalls, dataSyncLogs>>
    /\ UNCHANGED notExt

\* getExternalData returns n rows (LIMIT batchSize); the loop starts.
GetExternalDataReturns(c, n) ==
    /\ extCalls[c].pc = "reading"
    /\ n <= extCalls[c].batchSize
    /\ extCalls' = [extCalls EXCEPT ![c].recordsProcessed = n,
                                    ![c].left = n,
                                    ![c].pc = IF n = 0 THEN "updating" ELSE "chunk"]
    /\ UNCHANGED <<nExtCalls, dataSyncLogs>>
    /\ UNCHANGED notExt

\* getExternalData throws: the catch block of syncExternalData.
GetExternalDataFails(c) ==
    /\ extCalls[c].pc = "reading"
    /\ extCalls' = [extCalls EXCEPT ![c].pc = "failing"]
    /\ UNCHANGED <<nExtCalls, dataSyncLogs>>
    /\ UNCHANGED notExt

\* processDataChunk returns (ok) or throws; the next chunk, or the update.
ProcessDataChunkReturns(c, ok) ==
    /\ extCalls[c].pc = "chunk"
    /\ extCalls' = [extCalls EXCEPT ![c] =
                       [CountChunk(@, ok) EXCEPT
                           !.left = @ - ChunkLength(extCalls[c]),
                           !.pc = IF extCalls[c].left = ChunkLength(extCalls[c])
                                  THEN "updating" ELSE "chunk"]]
    /\ UNCHANGED <<nExtCalls, dataSyncLogs>>
    /\ UNCHANGED notExt

\* updateSyncLog succeeds (the table accepts the values): the row is
\* COMPLETED in the try block and FAILED in the catch block.
UpdateSyncLogReturns(c) ==
    /\ extCalls[c].pc \in {"updating", "failing"}
    /\ PositiveCounts(extCalls[c].recordsProcessed, extCalls[c].recordsSuccess,
                      extCalls[c].recordsFailed)
    /\ dataSyncLogs' = [dataSyncLogs EXCEPT ![c] =
                           LogUpdate(extCalls[c], IF extCalls[c].pc = "updating"
                                                  THEN "COMPLETED" ELSE "FAILED")]
    /\ extCalls' = [extCalls EXCEPT ![c].pc =
                       IF extCalls[c].pc = "updating" THEN "returned" ELSE "threw"]
    /\ UNCHANGED nExtCalls
    /\ UNCHANGED notExt

\* updateSyncLog throws: in the try block the catch block runs, in the catch
\* block the call throws and the row stays as it is.
UpdateSyncLogFails(c) ==
    /\ extCalls[c].pc \in {"updating", "failing"}
    /\ extCalls' = [extCalls EXCEPT ![c].pc =
                       IF extCalls[c].pc = "updating" THEN "failing" ELSE "threw"]
    /\ UNCHANGED <<nExtCalls, dataSyncLogs>>
    /\ UNCHANGED notExt

InitExtIdle ==
    /\ extCalls = [c \in ExtCallIds |-> NoExtCall]
    /\ nExtCalls = 0
    /\ dataSyncLogs = [c \in ExtCallIds |-> NoLogRow]

(***************************************************************************)
(* Calls of ETLManager.initialize() that overlap (part_002 28-68), and the *)
(* node-cron tasks ETLScheduler.initialize() makes (dataService.js         *)
(* 634-727).  A call is suspended at `await this.testConnections()` with   *)
(* isInitialized still false; scheduleFullSync / scheduleIncrementalSync / *)
(* scheduleCleanup make a task with cron.schedule(..), put it in this.jobs *)
(* under the kind (replacing the entry there) and start it.                *)
(***************************************************************************)
\* Number of initialize() calls that may overlap.
MaxOverlapCalls == 2

InitCallIds == 1..MaxOverlapCalls

\* No tick of the clock is being served.
NoTick == [kind |-> "none", pending |-> 0, fired |-> 0]

notSchedCron == <<anaVars, mapVars, dbVars, loadVars, syncVars, connVars, extVars,
                  runVars, ccVars, clientVars, externVars>>

\* initialize() up to its first await, called while other calls may be
\* suspended: it returns at once when isInitialized is set, and awaits
\* testConnections() otherwise.
OverlapInitializeCall(c) ==
    /\ initializing[c] = "idle"
    /\ \A d \in 1..(c - 1) : initializing[d] # "idle"
    /\ initializing' = [initializing EXCEPT ![c] =
                           IF isInitialized THEN "returned" ELSE "testing"]
    /\ initCalls' = [initCalls EXCEPT !.total = @ + 1,
                                      !.returned = IF isInitialized THEN @ + 1 ELSE @]
    /\ UNCHANGED <<cronTasks, cronTick>>
    /\ UNCHANGED <<jobs, cronStarted, isRunning, currentJobs, stats, tasks, nFires,
                   dropped, pools, isInitialized, mgrIsRunning, initPc, stopPc,
                   stopStage, atStop>>
    /\ UNCHANGED notSchedCron

\* testConnections() of call c throws, in extractor.connect() or (srcOk) after
\* it in loader.connect(); the call logs and rethrows.
OverlapTestConnectionsFails(c, srcOk) ==
    /\ initializing[c] = "testing"
    /\ initializing' = [initializing EXCEPT ![c] = "threw"]
    /\ initCalls' = [initCalls EXCEPT !.threw = @ + 1]
    /\ pools' = IF srcOk THEN [pools EXCEPT !["mgrSrc"] = Connect(@)] ELSE pools
    /\ UNCHANGED <<cronTasks, cronTick>>
    /\ UNCHANGED <<jobs, cronStarted, isRunning, currentJobs, stats, tasks, nFires,
                   dropped, isInitialized, mgrIsRunning, initPc, stopPc, stopStage,
                   atStop>>
    /\ UNCHANGED notSchedCron

\* testConnections() of call c succeeded: scheduler.initialize() makes and
\* starts one more task of each kind, and the flags are set.
OverlapInitializeDone(c) ==
    /\ initializing[c] = "testing"
    /\ initializing' = [initializing EXCEPT ![c] = "done"]
    /\ pools' = [pools EXCEPT !["mgrSrc"] = Connect(@), !["mgrTgt"] = Connect(@)]
    /\ jobs' = Kinds
    /\ cronStarted' = Kinds
    /\ cronTasks' = [k \in Kinds |-> cronTasks[k] + 1]
    /\ isRunning' = TRUE
    /\ isInitialized' = TRUE
    /\ mgrIsRunning' = TRUE
    /\ UNCHANGED cronTick
    /\ UNCHANGED <<currentJobs, stats, tasks, nFires, dropped, initPc, initCalls,
                   stopPc, stopStage, atStop>>
    /\ UNCHANGED notSchedCron

\* The time of the cron expression of a kind arrives: every started task of
\* the kind is due to run its callback.
CronTickArrives(kind) ==
    /\ cronTick.pending = 0
    /\ cronTasks[kind] > 0
    /\ nFires + cronTasks[kind] <= MaxFires
    /\ cronTick' = [kind |-> kind, pending |-> cronTasks[kind], fired |-> 0]
    /\ UNCHANGED <<initializing, cronTasks>>
    /\ UNCHANGED schedVars
    /\ UNCHANGED notSchedCron

\* One task due at the tick runs its callback: `await this.execute<Kind>()`.
CronCallback ==
    /\ cronTick.pending > 0
    /\ Execute(cronTick.kind, "cron")
    /\ cronTick' = [cronTick EXCEPT !.pending = @ - 1, !.fired = @ + 1]
    /\ UNCHANGED <<initializing, cronTasks>>
    /\ UNCHANGED <<jobs, cronStarted, isRunning, pools, isInitialized, mgrIsRunning,
                   initPc, initCalls, stopPc, stopStage, atStop>>
    /\ UNCHANGED notSchedCron

InitCronIdle ==
    /\ initializing = [c \in InitCallIds |-> "idle"]
    /\ cronTasks = [k \in Kinds |-> 0]
    /\ cronTick = NoTick

(***************************************************************************)
(* SpecSched                                                               *)
(***************************************************************************)
InitSchedIdle ==
    /\ jobs = {}
    /\ cronStarted = {}
    /\ isRunning = FALSE
    /\ currentJobs = {}
    /\ stats = [totalJobs |-> 0, successfulJobs |-> 0, failedJobs |-> 0]
    /\ tasks = [t \in 1..MaxFires |-> NoTask]
    /\ nFires = 0
    /\ dropped = 0
    /\ pools = [p \in PoolIds |-> NoPool]
    /\ isInitialized = FALSE
    /\ mgrIsRunning = FALSE
    /\ initPc = "idle"
    /\ initCalls = [total |-> 0, returned |-> 0, threw |-> 0]
    /\ stopPc = "idle"
    /\ stopStage = 0
    /\ atStop = {}

InitSched ==
    /\ InitSchedIdle /\ InitAnaIdle /\ InitMapIdle /\ InitDbEmpty /\ InitLoadIdle
    /\ InitSyncIdle /\ InitConnIdle /\ InitExtIdle /\ InitRunIdle
    /\ InitCcIdle /\ InitClientIdle /\ InitExternIdle /\ InitCronIdle
    /\ source = [t \in DataTables |-> {}] /\ enabled = AllEnabled

NextSched ==
    \/ InitializeCall
    \/ \E srcOk \in BOOLEAN : TestConnectionsFails(srcOk)
    \/ InitializeDone
    \/ \E k \in Kinds : CronFire(k)
    \/ \E k \in Kinds : ManualRun(k)
    \/ \E t \in 1..MaxFires, b \in BOOLEAN : SyncTableReturns(t, b, TRUE)
    \/ \E t \in 1..MaxFires : DelayReturns(t)
    \/ \E t \in 1..MaxFires : CleanupReturns(t)
    \/ StopCall
    \/ StopWaitReturns
    \/ PoolEnded

SpecSched == InitSched /\ [][NextSched]_vars

(***************************************************************************)
(* SpecFires: the cron fires and manual runs of an initialized scheduler,  *)
(* with tables whose syncTable returns success: true or success: false.    *)
(* (SpecSched follows the lifecycle of the manager and leaves the results  *)
(* of the tables out: no step of the scheduler reads them.)                *)
(***************************************************************************)
InitFires ==
    /\ jobs = Kinds
    /\ cronStarted = Kinds
    /\ isRunning = TRUE
    /\ currentJobs = {}
    /\ stats = [totalJobs |-> 0, successfulJobs |-> 0, failedJobs |-> 0]
    /\ tasks = [t \in 1..MaxFires |-> NoTask]
    /\ nFires = 0
    /\ dropped = 0
    /\ pools = [p \in PoolIds |->
                  IF p \in {"mgrSrc", "mgrTgt"} THEN Connect(NoPool) ELSE NoPool]
    /\ isInitialized = TRUE
    /\ mgrIsRunning = TRUE
    /\ initPc = "done"
    /\ initCalls = [total |-> 1, returned |-> 0, threw |-> 0]
    /\ stopPc = "idle"
    /\ stopStage = 0
    /\ atStop = {}
    /\ InitAnaIdle /\ InitMapIdle /\ InitDbEmpty /\ InitLoadIdle
    /\ InitSyncIdle /\ InitConnIdle /\ InitExtIdle /\ InitRunIdle
    /\ InitCcIdle /\ InitClientIdle /\ InitExternIdle /\ InitCronIdle
    /\ source = [t \in DataTables |-> {}] /\ enabled = AllEnabled

NextFires ==
    \/ \E k \in Kinds : CronFire(k)
    \/ \E k \in Kinds : ManualRun(k)
    \/ \E t \in 1..MaxFires, b \in BOOLEAN, ok \in BOOLEAN : SyncTableReturns(t, b, ok)
    \/ \E t \in 1..MaxFires : DelayReturns(t)
    \/ \E t \in 1..MaxFires : CleanupReturns(t)

SpecFires == InitFires /\ [][NextFires]_vars

(***************************************************************************)
(* SpecBudget: the job of one cron fire while the clock advances.          *)
(***************************************************************************)
\* A quarter of an hour passes while the jobs are suspended at their awaits:
\* a syncTable reads and loads batch after batch, and nothing bounds the
\* number of batches or the time of the calls together.
ClockAdvances ==
    /\ now < StartOfClock + MaxBudgetTicks
    /\ now' = now + 1
    /\ UNCHANGED <<schedVars, anaVars, mapVars, target, loadStats, loadVars, syncVars,
                   connVars, extVars, runVars, ccVars, clientVars, externVars, cronVars>>

InitBudget == InitFires

NextBudget ==
    \/ \E k \in Kinds : nFires < MaxBudgetFires /\ CronFire(k)
    \/ \E t \in 1..MaxFires, b \in BOOLEAN, ok \in BOOLEAN : SyncTableReturns(t, b, ok)
    \/ \E t \in 1..MaxFires : DelayReturns(t)
    \/ \E t \in 1..MaxFires : CleanupReturns(t)
    \/ ClockAdvances

SpecBudget == InitBudget /\ [][NextBudget]_vars

(***************************************************************************)
(* SpecAnalytics                                                           *)
(***************************************************************************)
InitAnalytics == InitSched

NextAnalytics ==
    \/ \E u \in AnaUsers, pt \in AnaPeriodTypes, d \in RefDates : GenerateCall(u, pt, d)
    \/ \E c \in AnaCallIds : ReadsReturnNull(c)
    \/ \E c \in AnaCallIds, ud \in UserDataSamples : ReadsReturn(c, ud)
    \/ \E c \in AnaCallIds : UpsertReturns(c)
    \/ \E c \in AnaCallIds : UpsertFails(c)

SpecAnalytics == InitAnalytics /\ [][NextAnalytics]_vars

(***************************************************************************)
(* Claims about the analytics upsert, checked under SpecAnalytics.         *)
(***************************************************************************)
RowsOfKey(k) == {i \in 1..Len(userAnalytics) : Key(userAnalytics[i]) = k}

\* C4: after any sequence and interleaving of generateUserAnalytics calls,
\* user_analytics holds at most one row per (user_id, period_type,
\* period_start); every key ever written has exactly one row, and the non-key
\* fields of that row are those of the most recent write for the key.
C4_OneRowPerKeyLatestWrite ==
    /\ \A i \in 1..Len(userAnalytics) :
          /\ Cardinality(RowsOfKey(Key(userAnalytics[i]))) = 1
          /\ Key(userAnalytics[i]) \in DOMAIN lastWrite
          /\ NonKey(userAnalytics[i]) = lastWrite[Key(userAnalytics[i])]
    /\ \A k \in DOMAIN lastWrite : Cardinality(RowsOfKey(k)) = 1

\* C4 witness: two calls with the same user, period type and reference date
\* both wrote, with different values, and one row is left.
C4_Witness ==
    /\ anaCalls[1].pc = "returnedRow" /\ anaCalls[2].pc = "returnedRow"
    /\ anaCalls[1].userId = anaCalls[2].userId
    /\ anaCalls[1].periodType = anaCalls[2].periodType
    /\ anaCalls[1].refDate = anaCalls[2].refDate
    /\ anaCalls[1].analytics # anaCalls[2].analytics
    /\ Len(userAnalytics) = 1

(***************************************************************************)
(* SpecMetrics: generateUserAnalytics for one user and day, over periods   *)
(* with up to MaxDeposits deposits and MaxBets bets.                       *)
(***************************************************************************)
MaxDeposits == 4

MaxBets == 2

\* The amounts of the explored deposits: 10.00 and 10.02.
DepositAmounts == {1000, 1002}

\* The explored bets: a won bet of 5.00 that paid 12.00, a lost bet of 7.00.
BetSamples == {Win(500, 1200), Loss(700)}

MetricSamples ==
    {UserData(5, << >>, [i \in DOMAIN amounts |-> Deposit(amounts[i])], bets,
              DefaultConfig) :
        amounts \in SeqsUpTo(DepositAmounts, MaxDeposits),
        bets \in SeqsUpTo(BetSamples, MaxBets)}

InitMetrics == InitSched

NextMetrics ==
    \/ \E d \in RefDates : GenerateCall(42, "DAILY", d)
    \/ \E c \in AnaCallIds, ud \in MetricSamples : ReadsReturn(c, ud)
    \/ \E c \in AnaCallIds : UpsertReturns(c)

SpecMetrics == InitMetrics /\ [][NextMetrics]_vars

AbsDiff(a, b) == IF a >= b THEN a - b ELSE b - a

\* C20: for every stored user_analytics row with deposit_count > 0,
\* avg_deposit_amount * deposit_count differs from total_deposits by at most
\* 0.01 (one cent), whatever the number and size of the deposits; with
\* deposit_count = 0 both are 0.
C20_AvgTimesCountWithinOneCent ==
    \A i \in 1..Len(userAnalytics) :
       IF userAnalytics[i].deposit_count > 0
       THEN AbsDiff(userAnalytics[i].avg_deposit_amount * userAnalytics[i].deposit_count,
                    userAnalytics[i].total_deposits) <= 1
       ELSE userAnalytics[i].avg_deposit_amount = 0 /\ userAnalytics[i].total_deposits = 0

\* C20 (amended): for every stored user_analytics row with deposit_count > 0,
\* avg_deposit_amount * deposit_count differs from total_deposits by at most
\* half a cent per deposit (0.005 * deposit_count); with deposit_count = 0
\* both are 0.
C20_AvgTimesCountWithinHalfCentPerDeposit ==
    \A i \in 1..Len(userAnalytics) :
       IF userAnalytics[i].deposit_count > 0
       THEN 2 * AbsDiff(userAnalytics[i].avg_deposit_amount * userAnalytics[i].deposit_count,
                        userAnalytics[i].total_deposits) <= userAnalytics[i].deposit_count
       ELSE userAnalytics[i].avg_deposit_amount = 0 /\ userAnalytics[i].total_deposits = 0

\* C20 witness: a stored row of four deposits whose rounded average times four
\* is two cents away from the total.
C20_Witness ==
    \E i \in 1..Len(userAnalytics) :
       /\ userAnalytics[i].deposit_count = 4
       /\ AbsDiff(userAnalytics[i].avg_deposit_amount * 4,
                  userAnalytics[i].total_deposits) = 2

(***************************************************************************)
(* SpecCpa: generateUserAnalytics for one user and month, over periods     *)
(* around the CPA thresholds and over configured rule sets.                *)
(***************************************************************************)
\* Largest number of distinct days the bets of a period are spread over.
MaxCpaDays == 3

\* The explored deposits (29.99, 30.00, 50.00), bet counts and bet amounts
\* (9.99, 10.00).
CpaDepositAmounts == {2999, 3000, 5000}

CpaBetCounts == {9, 10, 12}

CpaBetAmounts == {999, 1000}

\* count lost bets of one amount, spread over `days` days.
BetsOf(count, amount, days) == [i \in 1..count |-> OnDay(Loss(amount), i % days)]

\* The rule set with its days_active criterion disabled.
RulesWithoutDaysActive ==
    [DefaultCpaRules EXCEPT !.criteria[4].enabled = FALSE]

\* What the config service may hold: nothing (the defaults are returned), or
\* a rule set without the days_active criterion and a level-1 payout of 80.00.
CpaConfigs ==
    {DefaultConfig,
     [cpa_validation_rules |-> RulesWithoutDaysActive,
      cpa_level_amounts |-> [level_1 |-> 8000]]}

InitCpa ==
    /\ InitSchedIdle /\ InitMapIdle /\ InitDbEmpty /\ InitLoadIdle
    /\ InitSyncIdle /\ InitConnIdle /\ InitExtIdle /\ InitRunIdle
    /\ InitCcIdle /\ InitClientIdle /\ InitExternIdle /\ InitCronIdle
    /\ source = [t \in DataTables |-> {}] /\ enabled = AllEnabled
    /\ userAnalytics = << >>
    /\ anaCalls = [c \in AnaCallIds |-> NoAnaCall]
    /\ nAnaCalls = 0
    /\ lastWrite = << >>
    /\ affiliateAnalytics = << >>
    /\ configValues \in CpaConfigs

NextCpa ==
    \/ \E d \in RefDates : GenerateCall(42, "MONTHLY", d)
    \/ \E c \in AnaCallIds, amount \in CpaDepositAmounts, count \in CpaBetCounts,
          bet \in CpaBetAmounts, days \in 1..MaxCpaDays :
          ReadsReturn(c, UserData(5, << >>, <<Deposit(amount)>>,
                                  BetsOf(count, bet, days), configValues))
    \/ \E c \in AnaCallIds : UpsertReturns(c)

SpecCpa == InitCpa /\ [][NextCpa]_vars

(***************************************************************************)
(* Claims about the CPA qualification, checked under SpecCpa.              *)
(***************************************************************************)
\* The metric of a row a criterion of a CPA rule set is about.
CpaMetric(row, type) ==
    CASE type = "deposit"     -> row.total_deposits
      [] type = "bets"        -> row.bet_count
      [] type = "bet_amount"  -> row.total_bets
      [] type = "days_active" -> row.days_active

\* A row satisfies a rule set: its enabled criteria hold, all of them under
\* AND and one of them under OR.
SatisfiesCpaRules(rules, row) ==
    LET enabledCriteria == {i \in DOMAIN rules.criteria : rules.criteria[i].enabled}
        Holds(i) == CpaMetric(row, rules.criteria[i].type) >= rules.criteria[i].value
    IN  IF rules.operator = "AND"
        THEN \A i \in enabledCriteria : Holds(i)
        ELSE \E i \in enabledCriteria : Holds(i)

\* C21: every user_analytics row is cpa_qualified exactly when it satisfies
\* the configured CPA rule set (by default total_deposits >= 30 and
\* bet_count >= 10 and total_bets >= 100 and days_active >= 3); its
\* cpa_amount is the configured level-1 payout when it is qualified and 0
\* when it is not.
C21_QualifiedIffRulesSatisfied ==
    \A i \in 1..Len(userAnalytics) :
       /\ userAnalytics[i].cpa_qualified
             <=> SatisfiesCpaRules(configValues.cpa_validation_rules, userAnalytics[i])
       /\ userAnalytics[i].cpa_amount
             = IF userAnalytics[i].cpa_qualified
               THEN configValues.cpa_level_amounts.level_1 ELSE 0

\* C21, what the code does: a row is cpa_qualified exactly when
\* total_deposits >= 30, bet_count >= 10 and total_bets >= 100, whatever the
\* configured rule set and the days of activity; its cpa_amount is the
\* configured level-1 payout when it is qualified and 0 when it is not.
C21_QualifiedIffFixedThresholds ==
    \A i \in 1..Len(userAnalytics) :
       /\ userAnalytics[i].cpa_qualified
             <=> /\ userAnalytics[i].total_deposits >= CpaDepositThreshold
                 /\ userAnalytics[i].bet_count >= CpaBetCountThreshold
                 /\ userAnalytics[i].total_bets >= CpaBetAmountThreshold
       /\ userAnalytics[i].cpa_amount
             = IF userAnalytics[i].cpa_qualified
               THEN configValues.cpa_level_amounts.level_1 ELSE 0

\* C21 witness: under the default rules, a row with deposits of 50.00 and
\* twelve bets of 120.00 in all, every one on the same day, is cpa_qualified
\* with the level-1 payout.
C21_Witness ==
    /\ configValues = DefaultConfig
    /\ \E i \in 1..Len(userAnalytics) :
          /\ userAnalytics[i].total_deposits = 5000
          /\ userAnalytics[i].bet_count = 12
          /\ userAnalytics[i].total_bets = 12000
          /\ userAnalytics[i].days_active = 1
          /\ userAnalytics[i].cpa_qualified
          /\ userAnalytics[i].cpa_amount = 5000

(***************************************************************************)
(* SpecPeriods: generateUserAnalytics and generateAffiliateAnalytics over  *)
(* the period types and reference dates around the ends of weeks, months   *)
(* and of the year 2025.                                                   *)
(***************************************************************************)
\* Number of days explored from 2025-01-01 on.
MaxFirstDays == 6

\* The explored days of 2025: the first ones (Wednesday 1 January to Monday
\* 6 January), 1 March, Sunday 28 and Wednesday 31 December.
PeriodDays == (0..(MaxFirstDays - 1)) \cup {59, 361, 364}

\* The explored reference dates: the first second of those days, and the last
\* second of Sunday 5 January and of 31 December.
PeriodRefDates ==
    {d * SecondsPerDay : d \in PeriodDays}
       \cup {d * SecondsPerDay + SecondsPerDay - 1 : d \in {4, 364}}

InitPeriods == InitSched

NextPeriods ==
    \/ \E pt \in AnaPeriodTypes, d \in PeriodRefDates : GenerateCall(42, pt, d)
    \/ \E pt \in AnaPeriodTypes, d \in PeriodRefDates : GenerateAffiliateCall(5, pt, d)
    \/ \E c \in AnaCallIds : ReadsReturnNull(c)
    \/ \E c \in AnaCallIds :
          ReadsReturn(c, UserData(5, << >>, <<Deposit(2000)>>, << >>, configValues))
    \/ \E c \in AnaCallIds : UpsertReturns(c)
    \/ \E c \in AnaCallIds, n \in 0..1 : AffiliateReadsReturn(c, n)
    \/ \E c \in AnaCallIds : AffiliateUpsertReturns(c)

SpecPeriods == InitPeriods /\ [][NextPeriods]_vars

(***************************************************************************)
(* Claims about the periods, checked under SpecPeriods.                    *)
(***************************************************************************)
\* C22: every user_analytics and affiliate_analytics row has
\* period_end > period_start and one of the period types DAILY, WEEKLY,
\* MONTHLY, YEARLY, for every reference date; a call with another period
\* type throws, and neither table is changed by it.
C22_PeriodEndAfterPeriodStart ==
    /\ [](/\ \A i \in 1..Len(userAnalytics) :
                /\ userAnalytics[i].period_end > userAnalytics[i].period_start
                /\ userAnalytics[i].period_type \in PeriodTypes
          /\ \A i \in 1..Len(affiliateAnalytics) :
                /\ affiliateAnalytics[i].period_end > affiliateAnalytics[i].period_start
                /\ affiliateAnalytics[i].period_type \in PeriodTypes
          /\ \A c \in AnaCallIds :
                (anaCalls[c].pc # "none" /\ anaCalls[c].periodType \notin PeriodTypes)
                   => (anaCalls[c].pc = "threw" /\ anaCalls[c].analytics = Null))
    /\ [][\A c \in AnaCallIds :
             (anaCalls'[c].periodType \notin PeriodTypes \/ anaCalls[c].pc = "threw")
                => (anaCalls'[c] # anaCalls[c]
                      => UNCHANGED <<userAnalytics, affiliateAnalytics>>)]_vars

\* C22 witness: a user_analytics row and an affiliate_analytics row were
\* written, for different period types.
C22_Witness ==
    /\ Len(userAnalytics) = 1 /\ Len(affiliateAnalytics) = 1
    /\ userAnalytics[1].period_type = "YEARLY"
    /\ affiliateAnalytics[1].period_type = "WEEKLY"
    /\ affiliateAnalytics[1].period_start < 0

\* C22 witness of the error: a call with period type HOURLY threw after
\* another call had written its row, which is still there.
C22_WitnessInvalidType ==
    /\ anaCalls[1].pc = "returnedRow" /\ anaCalls[2].pc = "threw"
    /\ anaCalls[2].periodType = "HOURLY"
    /\ Len(userAnalytics) + Len(affiliateAnalytics) = 1

\* The calls for period type WEEKLY that have built their analytics object.
WeeklyCalls ==
    {c \in AnaCallIds :
        /\ anaCalls[c].periodType = "WEEKLY"
        /\ anaCalls[c].pc \in {"upserting", "upsertingAffiliate", "returnedRow"}}

\* Day of the week (0 = Sunday) of the day of instant t, also before 2025.
WeekdayOfInstant(t) == Weekday(DayOf(t + 7 * SecondsPerDay))

\* The week of a call: it holds the reference date and lasts seven days less
\* one second (one millisecond in the code).
IsWeekFrom(c, weekday) ==
    /\ WeekdayOfInstant(anaCalls[c].analytics.period_start) = weekday
    /\ anaCalls[c].analytics.period_start % SecondsPerDay = 0
    /\ anaCalls[c].analytics.period_end
          = anaCalls[c].analytics.period_start + 7 * SecondsPerDay - 1
    /\ anaCalls[c].analytics.period_start <= anaCalls[c].refDate
    /\ anaCalls[c].refDate <= anaCalls[c].analytics.period_end

\* C27: for period type WEEKLY, periodStart is 00:00 of the Monday that
\* starts the ISO week of the reference date and periodEnd the last instant
\* of that week's Sunday, for every reference date.
C27_WeeklyIsIsoWeek == \A c \in WeeklyCalls : IsWeekFrom(c, 1)

\* C27, what the code does: the week runs from 00:00 of the Sunday on or
\* before the reference date to the last instant of the Saturday after it.
C27_WeeklyIsSundayToSaturday == \A c \in WeeklyCalls : IsWeekFrom(c, 0)

\* C27 witness: for the reference date Sunday 5 January 2025 the period
\* starts on that Sunday and ends on Saturday 11 January.
C27_Witness ==
    \E c \in WeeklyCalls :
       /\ DayOf(anaCalls[c].refDate) = 4
       /\ anaCalls[c].analytics.period_start = 4 * SecondsPerDay
       /\ anaCalls[c].analytics.period_end = 11 * SecondsPerDay - 1

(***************************************************************************)
(* SpecMapper                                                              *)
(***************************************************************************)
InitMapper == InitSched

NextMapper ==
    \E tableName \in DataTables :
       \E sourceData \in SeqsUpTo(SampleRows(tableName), MaxMapBatch) :
          TransformTableCall(tableName, sourceData)

SpecMapper == InitMapper /\ [][NextMapper]_vars

(***************************************************************************)
(* SpecTransformer: up to MaxMapCalls calls of transformTable, one after   *)
(* the other, on the one DataTransformer instance the module exports.      *)
(***************************************************************************)
InitTransformer == InitSched

CallTables == DataTables \cup {"payments"}

NextTransformer ==
    \E tableName \in CallTables :
       \E sourceData \in SeqsUpTo(CallRows(tableName), MaxCallBatch) :
          \/ tableName \in DataTables /\ TransformTableCall(tableName, sourceData)
          \/ tableName \in DataTables /\ TransformTableNextCall(tableName, sourceData)
          \/ TransformTableThrows(tableName, sourceData)

SpecTransformer == InitTransformer /\ [][NextTransformer]_vars

(***************************************************************************)
(* SpecLoader: one loadBatch call on a target that is empty or holds the   *)
(* row an earlier batch committed for the first users source row.          *)
(***************************************************************************)
EarlierRow == CleanRecord(PipelineRecord("users", UserRow(1, <<"a", "n", "n">>,
                                                   <<"a", "@", "b", ".", "c">>, 5)))

InitLoader ==
    /\ InitSchedIdle /\ InitAnaIdle /\ InitMapIdle /\ InitLoadIdle
    /\ InitSyncIdle /\ InitConnIdle /\ InitExtIdle /\ InitRunIdle
    /\ InitCcIdle /\ InitClientIdle /\ InitExternIdle /\ InitCronIdle
    /\ source = [t \in DataTables |-> {}] /\ enabled = AllEnabled
    /\ target \in {[t \in TargetTables |-> << >>],
                   [t \in TargetTables |-> IF t = "affiliates" THEN <<EarlierRow>> ELSE << >>]}
    /\ now = StartOfClock
    /\ loadStats = NoLoadStats

NextLoader ==
    \/ \E tableName \in DataTables :
          \E batch \in SeqsUpTo(LoaderRecords(tableName), MaxLoadBatch) :
             LoadBatchCall(tableName, batch)
    \/ LoadRecordReturns
    \/ LoadRecordThrows
    \/ LoadBatchCommit

SpecLoader == InitLoader /\ [][NextLoader]_vars

(***************************************************************************)
(* SpecSync: syncTable calls, one after the other, on source tables that   *)
(* do not change.  The source users table holds any of the sample rows     *)
(* with distinct primary keys; transactions holds all of its sample rows.  *)
(***************************************************************************)
DistinctIds(S) == \A r, q \in S : r.id = q.id => r = q

InitSync ==
    /\ InitSchedIdle /\ InitAnaIdle /\ InitMapIdle /\ InitDbEmpty /\ InitLoadIdle
    /\ InitSyncIdle /\ InitConnIdle /\ InitExtIdle /\ InitRunIdle
    /\ InitCcIdle /\ InitClientIdle /\ InitExternIdle /\ InitCronIdle
    /\ \E users \in {S \in SUBSET UserRows : DistinctIds(S)} :
          source = [t \in DataTables |-> IF t = "users" THEN users ELSE TransactionRows]
    /\ enabled \in [DataTables -> BOOLEAN]

NextSync ==
    \/ \E tableName \in SyncTables, syncType \in {"full", "incremental"}, since \in Sinces :
          SyncTableCall(tableName, syncType, since)
    \/ IncrementalExtractReturns
    \/ FullExtractReturns
    \/ FullBatchReturns
    \/ ExtractFails
    \/ Tick

SpecSync == InitSync /\ [][NextSync]_vars

(***************************************************************************)
(* SpecTwoLoaders: the loadBatch of a fullSync job and the loadBatch of an *)
(* incrementalSync job, each on a batch of referrals records, against a    *)
(* target table with or without unique index.                              *)
(***************************************************************************)
CcBatches == SeqsUpTo(LoaderRecords(CcTable), MaxCcBatch) \ {<< >>}

InitTwoLoaders ==
    /\ InitSchedIdle /\ InitAnaIdle /\ InitMapIdle /\ InitDbEmpty /\ InitLoadIdle
    /\ InitSyncIdle /\ InitConnIdle /\ InitExtIdle /\ InitRunIdle /\ InitClientIdle
    /\ InitExternIdle /\ InitCronIdle
    /\ source = [t \in DataTables |-> {}] /\ enabled = AllEnabled
    /\ ccPc = [j \in LoadJobs |-> "idle"]
    /\ ccTxn = [j \in LoadJobs |-> NoCcTxn]
    /\ ccUnique \in BOOLEAN

NextTwoLoaders ==
    \/ \E j \in LoadJobs, batch \in CcBatches : CcLoadBatchCall(j, batch)
    \/ \E j \in LoadJobs : CcFindReturns(j)
    \/ \E j \in LoadJobs : CcWriteReturns(j)
    \/ \E j \in LoadJobs : CcCommit(j)

SpecTwoLoaders == InitTwoLoaders /\ [][NextTwoLoaders]_vars

(***************************************************************************)
(* DataLoader.cleanup (dataService.js 1437-1457) step by step, as awaited  *)
(* by ETLScheduler.executeCleanup (844-881) and by ETLManager.runCleanup   *)
(* (part_002 427-440).  The results of a cleanup job are the outcomes of   *)
(* the steps its cleanup() awaited so far: returned (TRUE) or threw.  The  *)
(* run of the manager has type "cleanup" and keeps them the same way.      *)
(***************************************************************************)
LoaderCleanupSteps ==
    <<"connect", "cleanupOrphanRecords", "updateTableStatistics", "cleanupOldLogs">>

\* A step of the cleanup threw.
StepFailed(results) == \E i \in DOMAIN results : ~results[i]

\* cleanup() is over: after its last step, or in its catch block after the
\* step that threw.
CleanupOver(results) == StepFailed(results) \/ Len(results) = Len(LoaderCleanupSteps)

\* cleanup() throws to its caller: never, its catch block logs the error of
\* the step and returns.
CleanupThrows(results) == FALSE

\* The try / catch of executeCleanup around `await this.loader.cleanup()`.
CountCleanup(results) ==
    IF CleanupThrows(results)
    THEN [stats EXCEPT !.failedJobs = @ + 1]
    ELSE [stats EXCEPT !.successfulJobs = @ + 1]

\* A step of the cleanup() of a cleanup job returns or throws; when cleanup()
\* is over, executeCleanup counts the job and its finally block removes the
\* kind.
CleanupStepReturns(t, ok) ==
    /\ tasks[t].pc = "cleanup" /\ tasks[t].kind = "cleanup"
    /\ IF CleanupOver(Append(tasks[t].results, ok))
       THEN /\ tasks' = [tasks EXCEPT ![t].pc = "done", ![t].results = Append(@, ok),
                                      ![t].late = LateAwaits(t)]
            /\ stats' = CountCleanup(Append(tasks[t].results, ok))
            /\ currentJobs' = currentJobs \ {tasks[t].kind}
       ELSE /\ tasks' = [tasks EXCEPT ![t].results = Append(@, ok)]
            /\ UNCHANGED <<stats, currentJobs>>
    /\ pools' = IF tasks[t].results = << >> /\ ok
                THEN [pools EXCEPT !["schedTgt"] = Connect(@)] ELSE pools
    /\ UNCHANGED <<jobs, cronStarted, isRunning, nFires, dropped,
                   isInitialized, mgrIsRunning, initPc, initCalls, stopPc, stopStage, atStop>>
    /\ UNCHANGED notSched

\* ETLManager.runCleanup up to the first await of loader.cleanup().
RunCleanupCall ==
    /\ runPc = "idle"
    /\ runPc' = "cleaning"
    /\ etlRun' = [NoEtlRun EXCEPT !.type = "cleanup"]
    /\ UNCHANGED <<schedVars, anaVars, mapVars, dbVars, loadVars, syncVars, connVars,
                   extVars, ccVars, clientVars, externVars, cronVars>>

\* A step of the cleanup() of runCleanup returns or throws; when cleanup() is
\* over, runCleanup returns {success: true}, or {success: false, error} from
\* its catch block.
RunCleanupStepReturns(ok) ==
    /\ runPc = "cleaning"
    /\ runPc' = IF CleanupOver(Append(etlRun.results, ok)) THEN "returned" ELSE "cleaning"
    /\ etlRun' = [etlRun EXCEPT
                     !.results = Append(@, ok),
                     !.success = /\ CleanupOver(Append(etlRun.results, ok))
                                 /\ ~CleanupThrows(Append(etlRun.results, ok))]
    /\ pools' = IF etlRun.results = << >> /\ ok
                THEN [pools EXCEPT !["mgrTgt"] = Connect(@)] ELSE pools
    /\ UNCHANGED <<jobs, cronStarted, isRunning, currentJobs, stats, tasks, nFires, dropped,
                   isInitialized, mgrIsRunning, initPc, initCalls, stopPc, stopStage, atStop>>
    /\ UNCHANGED <<anaVars, mapVars, dbVars, loadVars, syncVars, connVars,
                   extVars, ccVars, clientVars, externVars, cronVars>>

(***************************************************************************)
(* SpecCleanup: the cleanup fires of an initialized scheduler and one      *)
(* runCleanup of the manager, with steps that return or throw.             *)
(***************************************************************************)
InitCleanup == InitFires

NextCleanup ==
    \/ CronFire("cleanup")
    \/ \E t \in 1..MaxFires, ok \in BOOLEAN : CleanupStepReturns(t, ok)
    \/ RunCleanupCall
    \/ \E ok \in BOOLEAN : RunCleanupStepReturns(ok)

SpecCleanup == InitCleanup /\ [][NextCleanup]_vars

(***************************************************************************)
(* SpecReads: generateUserAnalytics of user 42 for one day, read by read,  *)
(* on an external database that holds the user row or not, and any of the  *)
(* sample deposits and bets.                                               *)
(***************************************************************************)
\* The user, the day of the period and the reference date of the calls.
ReadsUser == 42

ReadsDay == 67

ReadsRefDate == ReadsDay * SecondsPerDay + 36000

\* Number of sample deposits of the user within the period.
MaxPeriodDeposits == 4

\* A row of an external table, created at hour h of day d.
ExternalRow(id, userId, values, d, h) ==
    [f \in DOMAIN values \cup {"id", "user_id", "created_at", "day"} |->
        CASE f = "id" -> id
          [] f = "user_id" -> userId
          [] f = "created_at" -> d * SecondsPerDay + h * 3600
          [] f = "day" -> d
          [] OTHER -> values[f]]

\* The sample deposits: of the user in the period (10.01, 10.02, ..), of the
\* user on the day before, and of another user in the period.
DepositRows ==
    {ExternalRow(h, ReadsUser, [amount |-> 1000 + h], ReadsDay, h) :
        h \in 1..MaxPeriodDeposits}
      \cup {ExternalRow(90, ReadsUser, [amount |-> 7000], ReadsDay - 1, 23),
            ExternalRow(91, ReadsUser + 1, [amount |-> 9000], ReadsDay, 5)}

BetRows == {ExternalRow(1, ReadsUser, Loss(700), ReadsDay, 2)}

UserRowsOf42 == {[id |-> ReadsUser, user_id |-> ReadsUser, affiliate_id |-> 5, created_at |-> 0]}

InitReads ==
    /\ InitSchedIdle /\ InitAnaIdle /\ InitMapIdle /\ InitDbEmpty /\ InitLoadIdle
    /\ InitSyncIdle /\ InitConnIdle /\ InitExtIdle /\ InitRunIdle
    /\ InitCcIdle /\ InitClientIdle /\ InitCronIdle
    /\ source = [t \in DataTables |-> {}] /\ enabled = AllEnabled
    /\ \E users \in SUBSET UserRowsOf42, bets \in SUBSET BetRows,
          deposits \in SUBSET DepositRows :
          external = [t \in ExternalTables |->
                         CASE t = "users" -> users
                           [] t = "bets" -> bets
                           [] t = "deposits" -> deposits
                           [] OTHER -> {}]

NextReads ==
    \/ GenerateCall(ReadsUser, "DAILY", ReadsRefDate)
    \/ \E c \in AnaCallIds : ReadUserReturns(c)
    \/ \E c \in AnaCallIds : ReadTransactionsReturns(c)
    \/ \E c \in AnaCallIds : ReadBetsReturns(c)
    \/ \E c \in AnaCallIds : ReadDepositsReturns(c)
    \/ \E c \in AnaCallIds : ReadFails(c)
    \/ \E c \in AnaCallIds : CpaMetricsReturn(c)
    \/ \E c \in AnaCallIds : UpsertReturns(c)
    \/ \E c \in AnaCallIds : UpsertFails(c)

SpecReads == InitReads /\ [][NextReads]_vars

(***************************************************************************)
(* SpecOverlap: initialize() calls that overlap, the ticks of the cron     *)
(* expressions and the jobs their callbacks run.                           *)
(***************************************************************************)
InitOverlap == InitSched

NextOverlap ==
    \/ \E c \in InitCallIds : OverlapInitializeCall(c)
    \/ \E c \in InitCallIds, srcOk \in BOOLEAN : OverlapTestConnectionsFails(c, srcOk)
    \/ \E c \in InitCallIds : OverlapInitializeDone(c)
    \/ \E k \in Kinds : CronTickArrives(k)
    \/ CronCallback
    \/ \E t \in 1..MaxFires, b \in BOOLEAN : SyncTableReturns(t, b, TRUE)
    \/ \E t \in 1..MaxFires : DelayReturns(t)
    \/ \E t \in 1..MaxFires : CleanupReturns(t)

SpecOverlap == InitOverlap /\ [][NextOverlap]_vars

(***************************************************************************)
(* SpecClients: loadBatch calls that overlap, on a pool of MaxPoolClients  *)
(* clients.                                                                *)
(***************************************************************************)
InitClients == InitSched

NextClients ==
    \/ \E n \in 0..MaxClientBatch : ClientLoadBatchCall(n)
    \/ \E c \in BatchCallIds, k \in ClientIds : ClientConnectReturns(c, k)
    \/ \E c \in BatchCallIds : ClientConnectFails(c)
    \/ \E c \in BatchCallIds, ok \in BOOLEAN : ClientBegin(c, ok)
    \/ \E c \in BatchCallIds, ok \in BOOLEAN : ClientLoadRecord(c, ok)
    \/ \E c \in BatchCallIds : ClientCommitReturns(c)
    \/ \E c \in BatchCallIds : ClientCommitFails(c)
    \/ \E c \in BatchCallIds, ok \in BOOLEAN : ClientRollback(c, ok)

SpecClients == InitClients /\ [][NextClients]_vars

(***************************************************************************)
(* SpecRun: one runFullSync or runIncrementalSync over the two tables, on  *)
(* the sources of SpecSync.                                                *)
(***************************************************************************)
RunTableOptions ==
    {NoTables, TablesGiven(<<"users">>), TablesGiven(<<"transactions", "users">>),
     TablesGiven(<<"deposits">>)}

InitRun == InitSync

NextRun ==
    \/ \E type \in {"full", "incremental"}, tables \in RunTableOptions, since \in Sinces :
          RunSyncCall(type, tables, since)
    \/ RunSyncTable
    \/ IncrementalExtractReturns
    \/ FullExtractReturns
    \/ FullBatchReturns
    \/ ExtractFails
    \/ SyncTableReturnsToRun
    \/ RunDelayOver
    \/ Tick

SpecRun == InitRun /\ [][NextRun]_vars

(***************************************************************************)
(* SpecFullRead: full syncTable calls alone, on users tables of 0 to 4     *)
(* rows, with the fairness the termination of extractFull rests on: every  *)
(* query of the extractor returns, with rows or with an error, and the     *)
(* callback of extractFull returns.                                        *)
(***************************************************************************)
\* The users rows changed after quarter hour 5 and up to quarter hour k.
UsersUpTo(k) == {r \in UserRows : r.updated_at.n > 5 /\ r.updated_at.n <= k}

InitFullRead ==
    /\ InitSchedIdle /\ InitAnaIdle /\ InitMapIdle /\ InitDbEmpty /\ InitLoadIdle
    /\ InitSyncIdle /\ InitConnIdle /\ InitExtIdle /\ InitRunIdle
    /\ InitCcIdle /\ InitClientIdle /\ InitExternIdle /\ InitCronIdle
    /\ \E k \in 5..9 :
          source = [t \in DataTables |-> IF t = "users" THEN UsersUpTo(k) ELSE TransactionRows]
    /\ enabled \in [DataTables -> BOOLEAN]

NextFullRead ==
    \/ \E tableName \in SyncTables : SyncTableCall(tableName, "full", 0)
    \/ FullExtractReturns
    \/ FullBatchReturns
    \/ ExtractFails

SpecFullRead ==
    /\ InitFullRead /\ [][NextFullRead]_vars
    /\ WF_vars(FullExtractReturns)
    /\ WF_vars(FullBatchReturns)
    /\ WF_vars(ExtractFails)

(***************************************************************************)
(* SpecConnect: calls of connect() on one extractor (or loader), also      *)
(* overlapping, against a database that goes down and comes up.            *)
(***************************************************************************)
InitConnect == InitSched

NextConnect ==
    \/ ConnectCall
    \/ \E c \in ConnCallIds : AttemptSucceeds(c)
    \/ \E c \in ConnCallIds : AttemptFails(c)
    \/ \E c \in ConnCallIds : RetryDelayOver(c)
    \/ Disconnect
    \/ DatabaseFlips

SpecConnect == InitConnect /\ [][NextConnect]_vars

(***************************************************************************)
(* SpecExternal: calls of syncExternalData, also overlapping.              *)
(***************************************************************************)
InitExternal == InitSched

NextExternal ==
    \/ \E batchSize \in ExtBatchSizes : SyncExternalDataCall(batchSize)
    \/ \E c \in ExtCallIds : CreateSyncLogReturns(c)
    \/ \E c \in ExtCallIds : CreateSyncLogFails(c)
    \/ \E c \in ExtCallIds, n \in ExtRowCounts : GetExternalDataReturns(c, n)
    \/ \E c \in ExtCallIds : GetExternalDataFails(c)
    \/ \E c \in ExtCallIds, ok \in BOOLEAN : ProcessDataChunkReturns(c, ok)
    \/ \E c \in ExtCallIds : UpdateSyncLogReturns(c)
    \/ \E c \in ExtCallIds : UpdateSyncLogFails(c)

SpecExternal == InitExternal /\ [][NextExternal]_vars

(***************************************************************************)
(* Claims about data_sync_logs, checked under SpecExternal.                *)
(***************************************************************************)
\* C18: every data_sync_logs row finalized by syncExternalData, COMPLETED or
\* FAILED, has records_success + records_failed <= records_processed with the
\* three counters >= 0; and the values every updateSyncLog of syncExternalData
\* is called with satisfy the same, so that the table never rejects them.
C18_FinalizedCountsAreConsistent ==
    \A c \in ExtCallIds :
       /\ (dataSyncLogs[c].status \in {"COMPLETED", "FAILED"}) =>
             PositiveCounts(dataSyncLogs[c].records_processed,
                            dataSyncLogs[c].records_success,
                            dataSyncLogs[c].records_failed)
       /\ (extCalls[c].pc \in {"updating", "failing"}) =>
             PositiveCounts(extCalls[c].recordsProcessed, extCalls[c].recordsSuccess,
                            extCalls[c].recordsFailed)
       /\ (dataSyncLogs[c].status = "COMPLETED") =>
             dataSyncLogs[c].records_success + dataSyncLogs[c].records_failed
                = dataSyncLogs[c].records_processed

\* C18 witness: one call finalized its row COMPLETED with a failed chunk and a
\* succeeded one, another finalized its row FAILED.
C18_Witness ==
    \E c, e \in ExtCallIds :
       /\ dataSyncLogs[c].status = "COMPLETED"
       /\ dataSyncLogs[c].records_failed > 0 /\ dataSyncLogs[c].records_success > 0
       /\ dataSyncLogs[e].status = "FAILED"

(***************************************************************************)
(* Claims about the transformer, checked under SpecMapper.                 *)
(***************************************************************************)
\* C9 (as claimed): of a batch given to transformTable, the accepted rows are
\* exactly the rows that satisfy the required, email, numeric and positive
\* rules of the table, in order, and the rejected rows are the others, each
\* with the errors of the rules it failed.
C9_AcceptsExactlyValidRows ==
    mapPc = "returned" =>
       LET Valid(row) == SatisfiesRules(mapTable, row)
           Invalid(row) == ~SatisfiesRules(mapTable, row)
           good == SelectSeq(mapInput, Valid)
           bad == SelectSeq(mapInput, Invalid)
       IN  /\ Len(mapResult.transformedData) = Len(good)
           /\ \A i \in 1..Len(good) :
                 \A f \in DOMAIN TransformedValue(mapTable, good[i]) :
                    mapResult.transformedData[i][f] = TransformedValue(mapTable, good[i])[f]
           /\ mapResult.rejectedRecords =
                 [i \in 1..Len(bad) |->
                    [sourceRecord |-> bad[i], errors |-> RuleErrors(mapTable, bad[i])]]

\* What the code does instead: every row of every batch is rejected with the
\* TypeError of applyTransformations, whatever the rules say.
C9_EveryRowRejected ==
    mapPc = "returned" =>
       /\ mapResult.transformedData = << >>
       /\ mapResult.rejectedRecords =
             [i \in 1..Len(mapInput) |->
                [sourceRecord |-> mapInput[i], errors |-> <<TypeErrorMessage>>]]

\* A three-row users batch with exactly one malformed e-mail was transformed.
C9_ExampleBatch ==
    /\ mapPc = "returned" /\ mapTable = "users" /\ Len(mapInput) = 3
    /\ Cardinality({i \in 1..3 : SatisfiesRules("users", mapInput[i])}) = 2
    /\ \E i \in 1..3 : RuleErrors("users", mapInput[i]) = <<<<"email", "email">>>>

(***************************************************************************)
(* Claims about the loader, checked under SpecLoader.                      *)
(***************************************************************************)
LoadBatchOver == loadPc \in {"returned", "threw"}

LoadTarget == target[Mappings[loadTable].targetTable]

\* C5 (as claimed): a batch commits if and only if every one of its records
\* was inserted, updated or skipped; and when a record fails with an error
\* other than 23505 the target is as it was when the batch began and loadBatch
\* throws.
C5_CommitsIffNoRowFailed ==
    LoadBatchOver =>
       /\ loadCommitted <=>
             /\ Len(loadOutcomes) = Len(loadBatchRows)
             /\ \A i \in 1..Len(loadOutcomes) :
                   loadOutcomes[i] \in {"inserted", "updated", "skipped"}
       /\ (\E i \in 1..Len(loadOutcomes) : loadOutcomes[i] = "failed") =>
             loadPc = "threw" /\ target = targetAtBegin

\* The half of C5 the code keeps: a record that fails with another error than
\* 23505 leaves the target as it was and makes loadBatch throw.
C5_FailureRollsBack ==
    LoadBatchOver =>
       ((\E i \in 1..Len(loadOutcomes) : loadOutcomes[i] = "failed") =>
           loadPc = "threw" /\ target = targetAtBegin /\ ~loadCommitted)

\* A batch whose last record was skipped for 23505 after an insert is over.
C5_SkipThenCommit ==
    /\ loadPc = "returned" /\ Len(loadBatchRows) = 2
    /\ loadOutcomes = <<"inserted", "skipped">>

\* The first two records of the batch carry the same external_user_id, and
\* the first collides with no row the target had when the batch began.
SameKeyTwice ==
    /\ loadTable = "users" /\ Len(loadBatchRows) >= 2
    /\ loadBatchRows[1].external_user_id = loadBatchRows[2].external_user_id
    /\ ~UniqueViolation(targetAtBegin.affiliates, Mappings.users,
                        CleanRecord(loadBatchRows[1]), 0)

\* C6 (as claimed): when the first two records of a batch map to the same
\* external_user_id, the first is inserted, the second is skipped for 23505,
\* the rest of the batch is processed and the batch commits with the first
\* record in the target; for a batch of these two records the counters are
\* recordsInserted = 1 and recordsSkipped = 1.
C6_SecondOfSameKeySkipped ==
    (LoadBatchOver /\ SameKeyTwice) =>
       /\ Len(loadOutcomes) = Len(loadBatchRows)
       /\ loadOutcomes[1] = "inserted" /\ loadOutcomes[2] = "skipped"
       /\ loadPc = "returned" /\ loadCommitted
       /\ \E i \in 1..Len(LoadTarget) : LoadTarget[i] = CleanRecord(loadBatchRows[1])
       /\ Len(loadBatchRows) = 2 =>
             loadStats.recordsInserted = 1 /\ loadStats.recordsSkipped = 1

\* What the code does with such a batch: the second record is found by
\* findExistingRecord inside the transaction and goes to updateRecord; it is
\* never skipped.
C6_SecondOfSameKeyUpdates ==
    (LoadBatchOver /\ SameKeyTwice) =>
       /\ loadOutcomes[1] = "inserted"
       /\ loadOutcomes[2] \in {"updated", "failed"}
       /\ Len(loadBatchRows) = 2 => loadStats.recordsSkipped = 0

\* A batch of two records with the same new external_user_id is over.
C6_SameKeyBatchOver == LoadBatchOver /\ SameKeyTwice /\ Len(loadBatchRows) = 2

(***************************************************************************)
(* Claims about syncTable, checked under SpecSync.                         *)
(***************************************************************************)
Range(seq) == {seq[i] : i \in 1..Len(seq)}

\* Two syncTable calls, one right after the other, with the same arguments.
BackToBack(i) ==
    /\ i \in 1..(Len(syncLog) - 1)
    /\ syncLog[i + 1].tableName = syncLog[i].tableName
    /\ syncLog[i + 1].syncType = syncLog[i].syncType
    /\ syncLog[i + 1].since = syncLog[i].since

AfterWatermark(tableName, w) ==
    {r \in source[tableName] :
        /\ PassesFilters(tableName, r)
        /\ r[Mappings[tableName].incrementalField].n > w}

MaxObserved(run) ==
    LET values == {r[Mappings[run.tableName].incrementalField].n : r \in Range(run.extracted)} IN
    CHOOSE m \in values : \A v \in values : v <= m

\* C8 (as claimed): after a successful incremental run of a table that
\* extracted rows, the next incremental run of the table, when its caller
\* passes no `since`, uses a watermark at or above the largest
\* incrementalField value the first run saw, extracts no row and reports
\* recordsLoaded = 0.
C8_WatermarkAdvances ==
    \A i \in 1..(Len(syncLog) - 1) :
       ( /\ syncLog[i].syncType = "incremental" /\ syncLog[i].success
         /\ syncLog[i].extracted # << >>
         /\ syncLog[i + 1].syncType = "incremental"
         /\ syncLog[i + 1].tableName = syncLog[i].tableName
         /\ syncLog[i + 1].since = 0 ) =>
          /\ syncLog[i + 1].lastSyncTime >= MaxObserved(syncLog[i])
          /\ syncLog[i + 1].extracted = << >>
          /\ syncLog[i + 1].recordsLoaded = 0

\* What the code does: without `since` the watermark of every incremental run
\* is the clock of its call minus one hour, whatever earlier runs saw.
C8_WatermarkIsClockMinusHour ==
    \A i \in 1..Len(syncLog) :
       (syncLog[i].syncType = "incremental" /\ syncLog[i].since = 0) =>
          \E t \in StartOfClock..(StartOfClock + MaxTicks) :
             syncLog[i].lastSyncTime = t - Hour

\* Two incremental runs of one table without `since`: the first was
\* successful and extracted rows, and the second extracted rows again.
C8_SecondRunExtractsAgain ==
    /\ Len(syncLog) = 2
    /\ syncLog[1].syncType = "incremental" /\ syncLog[1].success
    /\ syncLog[2].syncType = "incremental" /\ syncLog[2].success
    /\ syncLog[1].tableName = syncLog[2].tableName
    /\ syncLog[1].since = 0 /\ syncLog[2].since = 0
    /\ syncLog[1].extracted # << >>
    /\ syncLog[2].extracted = syncLog[1].extracted

\* C10 (as claimed): a successful incremental run with watermark W processes
\* exactly the source rows that pass the filters of the table and whose
\* incrementalField is greater than W, and loads those of them that pass
\* validation.
C10_ProcessesExactlyRowsAfterWatermark ==
    \A i \in 1..Len(syncLog) :
       (syncLog[i].syncType = "incremental" /\ syncLog[i].success) =>
          /\ Range(syncLog[i].extracted)
                = AfterWatermark(syncLog[i].tableName, syncLog[i].lastSyncTime)
          /\ syncLog[i].loaded =
                Cardinality({r \in AfterWatermark(syncLog[i].tableName,
                                                  syncLog[i].lastSyncTime) :
                                SatisfiesRules(syncLog[i].tableName, r)})

\* The half of C10 the code keeps: no row at or before the watermark, and no
\* row the filters exclude, is extracted.
C10_NothingAtOrBeforeWatermark ==
    \A i \in 1..Len(syncLog) :
       (syncLog[i].syncType = "incremental" /\ syncLog[i].tableName \in DataTables) =>
          Range(syncLog[i].extracted)
             \subseteq AfterWatermark(syncLog[i].tableName, syncLog[i].lastSyncTime)

\* The extraction half of C10 alone: every row after the watermark is
\* extracted.  LIMIT batchSize cuts the one batch of an incremental run.
C10_NothingAfterWatermarkLeftOut ==
    \A i \in 1..Len(syncLog) :
       (syncLog[i].syncType = "incremental" /\ syncLog[i].success) =>
          AfterWatermark(syncLog[i].tableName, syncLog[i].lastSyncTime)
             \subseteq Range(syncLog[i].extracted)

\* The example of C10: an incremental run of users with a watermark passed by
\* the caller, on a source with a row at or before it and two valid rows after.
C10_Example ==
    /\ Len(syncLog) >= 1
    /\ syncLog[1].syncType = "incremental" /\ syncLog[1].tableName = "users"
    /\ syncLog[1].success /\ syncLog[1].since # 0
    /\ \E r \in source.users : r.updated_at.n <= syncLog[1].since
    /\ Len(syncLog[1].extracted) = 2
    /\ \A k \in 1..2 : SatisfiesRules("users", syncLog[1].extracted[k])

(***************************************************************************)
(* Claims about the extractor, checked under SpecSync and SpecFullRead.    *)
(***************************************************************************)
\* C11: every extractTable call that returns success: true with batch size N
\* returns at most N rows and reports hasMore = true exactly when it returns
\* N rows, hasMore = false when it returns fewer; extractFull reads a further
\* batch exactly when hasMore was true.
C11_HasMoreIffFullBatch ==
    /\ Len(lastExtract.data) <= lastExtract.batchSize
    /\ lastExtract.hasMore <=> Len(lastExtract.data) = lastExtract.batchSize
    /\ syncPc = "inCallback" => (syncRun.hasMore <=> Len(syncRun.batch) = BatchSize)
    /\ \A i \in 1..Len(syncLog) :
          (syncLog[i].syncType = "full" /\ syncLog[i].success) =>
             Len(syncLog[i].extracted) < syncLog[i].reads * BatchSize

\* C11 witness: a full run read a batch of N rows and then, at the next
\* offset, a batch that is not empty and has fewer than N rows.
C11_Witness ==
    /\ syncPc = "inCallback"
    /\ lastExtract.offset = BatchSize
    /\ lastExtract.data # << >> /\ ~lastExtract.hasMore

\* The rows a full read of a table selects, in the order of the primary key.
FullRows(tableName) ==
    SortedBy({r \in source[tableName] : PassesFilters(tableName, r)},
             Mappings[tableName].primaryKey)

\* The offsets 0, N, 2N, .. of n successive batches.
Offsets(n) == [k \in 1..n |-> (k - 1) * BatchSize]

\* extractFull reads a batch only when every callback it started has returned.
OneBatchAtATime ==
    /\ syncPc = "extracting" => syncRun.reads = Len(syncRun.offsets)
    /\ syncPc = "inCallback" => syncRun.reads = Len(syncRun.offsets) + 1

\* A full run whose every read succeeded handed the rows `rows` to the
\* callback, each once, in ascending offset order, and stopped at the first
\* batch with fewer than batchSize rows.
HandedExactly(run, rows) ==
    /\ run.extracted = rows
    /\ run.offsets = Offsets(Len(rows) \div BatchSize + 1)
    /\ run.reads = Len(run.offsets)

C12_HandsSelectedRowsOnce ==
    /\ OneBatchAtATime
    /\ \A i \in 1..Len(syncLog) :
          (syncLog[i].syncType = "full" /\ syncLog[i].success) =>
             HandedExactly(syncLog[i], FullRows(syncLog[i].tableName))

StageFailed(run) == ~run.configOk \/ ~run.extractOk \/ ~run.batchesOk

ConfigurationError(run) ==
    \/ run.tableName \notin DataTables
    \/ ~enabled[run.tableName]
    \/ run.syncType = "incremental" /\ Mappings[run.tableName].incrementalField = ""

\* C14: syncTable on an unknown table, on a disabled table, or in incremental
\* mode on a table without incrementalField returns {success: false, error}
\* to its caller; it reads no batch, makes at most the one extractTable call
\* that fails, starts nothing further, and writes no row to the target.
C14_ConfigurationErrorIsSurfaced ==
    /\ \A i \in 1..Len(syncLog) :
          ConfigurationError(syncLog[i]) =>
             /\ ~syncLog[i].success
             /\ syncLog[i].reads = 0 /\ syncLog[i].attempts <= 1
             /\ syncLog[i].extracted = << >>
             /\ syncLog[i].targetAfter = syncLog[i].targetBefore
             /\ syncLog[i].inserted = 0 /\ syncLog[i].loaded = 0
    /\ (syncPc # "idle" /\ ConfigurationError(syncRun)) =>
          syncPc = "extracting" /\ syncRun.reads = 0

\* C14 witness: a run on a table without mapping and a full run on a table
\* whose mapping is not enabled both returned.
C14_Witness ==
    /\ Len(syncLog) = 2
    /\ syncLog[1].tableName \notin DataTables /\ ~syncLog[1].configOk
    /\ syncLog[2].tableName \in DataTables /\ ~enabled[syncLog[2].tableName]
    /\ syncLog[2].syncType = "full" /\ syncLog[2].attempts = 1
    /\ ~syncLog[1].success /\ ~syncLog[2].success

(***************************************************************************)
(* Claims about connect(), checked under SpecConnect.                      *)
(***************************************************************************)
\* C16: every call of connect() against an unreachable database fails only
\* after maxRetries connection attempts, the calls made after an earlier
\* call exhausted its retries included.
C16_FailsOnlyAfterMaxRetriesAttempts ==
    \A c \in ConnCallIds :
       (connCalls[c].pc = "threw" /\ ~connCalls[c].sawUp) =>
          connCalls[c].attempts = MaxRetries

\* C16, the upper bound: a call of connect() during which the database is
\* unreachable makes at most maxRetries attempts, with one delay(retryDelay)
\* between two successive attempts, and throws only when the
\* connectionRetries it counted has reached maxRetries.
C16_AtMostMaxRetriesAttempts ==
    \A c \in ConnCallIds :
       (~connCalls[c].sawUp) =>
          /\ connCalls[c].attempts <= MaxRetries
          /\ (connCalls[c].pc \in {"attempting", "delaying", "threw"}) =>
                /\ connCalls[c].attempts >= 1
                /\ connCalls[c].delays = connCalls[c].attempts - 1
          /\ (connCalls[c].pc = "threw") => (connCalls[c].retries >= MaxRetries)

\* C16 witness: against a database that is down, the first call threw after
\* maxRetries attempts and the next call threw after its first attempt.
C16_Witness ==
    /\ connCalls[1].pc = "threw" /\ ~connCalls[1].sawUp
    /\ connCalls[1].attempts = MaxRetries
    /\ connCalls[2].pc = "threw" /\ ~connCalls[2].sawUp
    /\ connCalls[2].attempts = 1 /\ connCalls[2].delays = 0

(***************************************************************************)
(* Claims about the scheduler, checked under SpecSched.                    *)
(***************************************************************************)
TaskIds == 1..MaxFires

\* A pool whose end() is called in this step.
Closes(p) == pools[p].pool # "ended" /\ pools'[p].pool = "ended"

\* A task that starts running in this step.
Starts(t) == ~Running(t) /\ Running(t)'

\* C1: for each kind K in {fullSync, incrementalSync, cleanup}, under any
\* interleaving of cron fires and manual all-table runs, the number of
\* executions of K between their start and their finally never exceeds 1.
C1_AtMostOnePerKind == \A k \in Kinds : RunningCount(k) <= 1

\* C1 witness: a cron fire and a manual run of the same kind collided: one is
\* running, the other was dropped at the guard.
C1_Witness ==
    \E t, u \in TaskIds :
        /\ Running(t) /\ tasks[u].pc = "dropped"
        /\ tasks[t].kind = tasks[u].kind
        /\ tasks[t].origin # tasks[u].origin

\* C2: a fire of kind K that arrives while K is running returns at once without
\* syncing any table, is never started later on (not queued), and leaves
\* totalJobs, successfulJobs and failedJobs unchanged: the started executions
\* are exactly the fires that were not dropped.
C2_DroppedFireLeavesNoTrace ==
    /\ [](stats.totalJobs + dropped = nFires)
    /\ [][\A t \in TaskIds :
            /\ (tasks[t].pc = "none" /\ tasks'[t].pc = "dropped")
                 => /\ tasks[t].kind' \in currentJobs
                    /\ stats' = stats
                    /\ currentJobs' = currentJobs
                    /\ pools' = pools
                    /\ \A u \in TaskIds \ {t} : tasks'[u] = tasks[u]
            /\ tasks[t].pc = "dropped" => tasks'[t] = tasks[t]]_vars

\* C2 witness: a fire was dropped and the execution that blocked it has since
\* finished, with no other execution of that kind started.
C2_Witness ==
    \E t, u \in TaskIds :
        /\ t < u
        /\ tasks[t].pc = "done" /\ tasks[u].pc = "dropped"
        /\ tasks[t].kind = tasks[u].kind
        /\ RunningCount(tasks[t].kind) = 0
        /\ stats.totalJobs + dropped = nFires

\* The pools the scheduler's jobs read and write through.
JobPools == {"schedSrc", "schedTgt"}

C17_InitializeIsIdempotent ==
    /\ [](~isInitialized => (jobs = {} /\ cronStarted = {} /\ ~isRunning /\ ~mgrIsRunning))
    /\ [][/\ (isInitialized /\ initCalls'.total = initCalls.total + 1)
               => /\ initPc' # "testing"
                  /\ UNCHANGED <<jobs, cronStarted, isRunning, currentJobs, stats,
                                 tasks, nFires, dropped, pools, isInitialized,
                                 mgrIsRunning, stopPc, stopStage>>
          /\ (initPc = "testing" /\ initPc' = "threw")
               => /\ ~isInitialized /\ ~isInitialized'
                  /\ UNCHANGED <<jobs, cronStarted, isRunning, mgrIsRunning, stats>>]_vars

\* C17 witness: a call failed in its connection test, a later call succeeded,
\* and a further call returned at the guard with the cron tasks still started.
C17_Witness ==
    /\ initCalls.threw >= 1 /\ initCalls.returned >= 1
    /\ isInitialized /\ initPc = "done" /\ stopPc = "idle"
    /\ cronStarted = Kinds

\* C15: within one full or incremental fire the tables are synced one at a
\* time, in the order of the configuration; whatever the results, a fire
\* that is past table i has a result for each of the first i tables, a fire
\* that returned has a result for every table of its kind, it counted as a
\* successful job, and no job was counted as failed.
C15_TableFailureStopsOnlyThatTable ==
    /\ stats.failedJobs = 0
    /\ \A t \in 1..MaxFires :
          tasks[t].kind \in {"fullSync", "incrementalSync"} =>
             /\ tasks[t].pc = "sync" => Len(tasks[t].results) = tasks[t].idx - 1
             /\ tasks[t].pc = "delay" => Len(tasks[t].results) = tasks[t].idx
             /\ tasks[t].pc \in {"cleanup", "done"} =>
                   Len(tasks[t].results) = Len(JobTables(tasks[t].kind))

\* C15 witness: a full fire whose first table failed returned after it
\* synced the other tables, and counted as successful.
C15_Witness ==
    \E t \in 1..MaxFires :
       /\ tasks[t].kind = "fullSync" /\ tasks[t].pc = "done"
       /\ tasks[t].results = <<FALSE, TRUE, TRUE>>
       /\ stats.successfulJobs >= 1


(***************************************************************************)
(* The mapper over a sequence of calls (SpecTransformer).                  *)
(***************************************************************************)
\* The calls of the log that returned.
ReturnedCalls == {k \in 1..Len(mapLog) : ~mapLog[k].threw}

\* The rows of a call that were accepted / rejected, in input order.
IsAccepted(r) == r.outcome.accepted

IsRejected(r) == ~r.outcome.accepted

AcceptedOf(call) == SelectSeq(call.rows, IsAccepted)

RejectedOf(call) == SelectSeq(call.rows, IsRejected)

RaisedRows ==
    {p \in ReturnedCalls \X (1..MaxCallBatch) :
        /\ p[2] <= Len(mapLog[p[1]].rows)
        /\ mapLog[p[1]].rows[p[2]].warnings # {}}

\* C28: a raising per-field function does not reject the row.  For every row
\* one of whose configured functions raised, a warning is logged for the
\* field, and the row is accepted exactly when the record with the field at
\* its value from before the function passes validation; then the accepted
\* record carries that value.
C28_RaisingTransformDoesNotReject ==
    \A p \in RaisedRows :
       LET call == mapLog[p[1]]
           row  == call.sourceData[p[2]]
           out  == call.rows[p[2]].outcome
       IN  /\ out.accepted = SatisfiesRules(call.tableName, row)
           /\ out.accepted =>
                 \A f \in call.rows[p[2]].warnings :
                    out.record[f] = DefaultTransformField(f,
                                       MapFields(row, Mappings[call.tableName].fieldMapping)[f])

\* What the code does with such a row: the warning is logged, and the row is
\* rejected with the TypeError of line 151 whatever validation would say.
C28_RaisingTransformRowIsRejected ==
    \A p \in RaisedRows :
       LET out == mapLog[p[1]].rows[p[2]].outcome
       IN  /\ ~out.accepted
           /\ out.errors = <<TypeErrorMessage>>

\* A users row whose document is the number 12 was handled: the document
\* function raised, the row satisfies every validation rule, and it is on the
\* rejected list.
C28_Witness ==
    \E p \in RaisedRows :
       /\ mapLog[p[1]].tableName = "users"
       /\ mapLog[p[1]].sourceData[p[2]].document = Num(12)
       /\ mapLog[p[1]].rows[p[2]].warnings = {"document"}
       /\ SatisfiesRules("users", mapLog[p[1]].sourceData[p[2]])
       /\ ~mapLog[p[1]].rows[p[2]].outcome.accepted
       /\ \E i \in 1..Len(mapLog[p[1]].result.rejectedRecords) :
             mapLog[p[1]].result.rejectedRecords[i].sourceRecord
                = mapLog[p[1]].sourceData[p[2]]

\* The rows handed to the calls of the log that returned.
RECURSIVE RowsHandled(_)
RowsHandled(k) ==
    IF k = 0 THEN 0
    ELSE RowsHandled(k - 1) + (IF mapLog[k].threw THEN 0 ELSE Len(mapLog[k].sourceData))

\* C29: row-level errors never fail a batch.  Every call of transformTable
\* that returns, returns success = true with recordsTransformed +
\* recordsRejected = recordsProcessed = the length of the input and one entry
\* of the rejected list per rejected row; and after every call the cumulative
\* counters satisfy recordsProcessed = recordsTransformed + recordsRejected,
\* recordsProcessed being the number of rows handed to the calls so far.
C29_CountsAddUp ==
    /\ \A k \in ReturnedCalls :
          /\ mapLog[k].success = TRUE
          /\ mapLog[k].stats.recordsProcessed = Len(mapLog[k].sourceData)
          /\ mapLog[k].stats.recordsTransformed + mapLog[k].stats.recordsRejected
                = mapLog[k].stats.recordsProcessed
          /\ Len(mapLog[k].result.rejectedRecords) = mapLog[k].stats.recordsRejected
          /\ Len(mapLog[k].result.rejectedRecords) = Len(RejectedOf(mapLog[k]))
          /\ Len(mapLog[k].result.transformedData) = mapLog[k].stats.recordsTransformed
    /\ transformationStats.recordsProcessed
          = transformationStats.recordsTransformed + transformationStats.recordsRejected
    /\ transformationStats.recordsProcessed = RowsHandled(Len(mapLog))

\* Two calls returned, the first on two transactions rows one of which breaks
\* the positive rule, the second on two users rows one of which has a bad
\* e-mail: four rows were processed in all.
C29_Witness ==
    /\ Len(mapLog) = 2 /\ ReturnedCalls = {1, 2}
    /\ mapLog[1].tableName = "transactions" /\ Len(mapLog[1].sourceData) = 2
    /\ \E i \in 1..2 : ~SatisfiesRules("transactions", mapLog[1].sourceData[i])
    /\ mapLog[2].tableName = "users" /\ Len(mapLog[2].sourceData) = 2
    /\ \E i \in 1..2 : ~SatisfiesRules("users", mapLog[2].sourceData[i])
    /\ transformationStats.recordsProcessed = 4
    /\ mapLog[2].stats.recordsProcessed = 2


(***************************************************************************)
(* The object syncTable returns (SpecSync).                                *)
(***************************************************************************)
\* The syncTable calls of the log whose extract step ran and yielded no row.
EmptyExtracts ==
    {k \in 1..Len(syncLog) :
        /\ syncLog[k].configOk /\ syncLog[k].extractOk
        /\ syncLog[k].extracted = << >>}

\* C24: when the extract step yields no rows, syncTable returns
\* {success: true, recordCount: 0} and writes no target row, in full and in
\* incremental mode.
C24_EmptyExtractReturnsRecordCountZero ==
    \A k \in EmptyExtracts :
       /\ syncLog[k].result.success = TRUE
       /\ "recordCount" \in DOMAIN syncLog[k].result
       /\ syncLog[k].result.recordCount = 0
       /\ syncLog[k].targetAfter = syncLog[k].targetBefore

\* What the code does: success and an untouched target in both modes,
\* recordCount: 0 in incremental mode, and in full mode an object without
\* recordCount that lists the one batch the callback was given.
C24_EmptyExtractWritesNothing ==
    \A k \in EmptyExtracts :
       /\ syncLog[k].result.success = TRUE
       /\ syncLog[k].targetAfter = syncLog[k].targetBefore
       /\ syncLog[k].inserted = 0 /\ syncLog[k].loaded = 0
       /\ syncLog[k].syncType = "incremental" =>
             /\ "recordCount" \in DOMAIN syncLog[k].result
             /\ syncLog[k].result.recordCount = 0
       /\ syncLog[k].syncType = "full" =>
             /\ "recordCount" \notin DOMAIN syncLog[k].result
             /\ syncLog[k].result.batches = 1

\* A full syncTable of users returned after its one read found the source
\* table empty.
C24_Witness ==
    \E k \in EmptyExtracts :
       /\ syncLog[k].syncType = "full" /\ syncLog[k].tableName = "users"
       /\ syncLog[k].reads = 1
       /\ syncLog[k].result.success = TRUE
       /\ "recordCount" \notin DOMAIN syncLog[k].result
       /\ syncLog[k].targetAfter = syncLog[k].targetBefore


(***************************************************************************)
(* The summary of a run (SpecRun).                                         *)
(***************************************************************************)
\* The syncTable calls of the run, in the history.
RunCalls == (etlRun.base + 1)..Len(syncLog)

RECURSIVE RowsExtracted(_)
\* The source rows the extractor returned to the calls base+1 .. k.
RowsExtracted(k) ==
    IF k <= etlRun.base THEN 0
    ELSE RowsExtracted(k - 1) + Len(syncLog[k].extracted)

RECURSIVE RowsLoaded(_)
\* The target rows the loader counted as loaded during the calls base+1 .. k.
RowsLoaded(k) ==
    IF k <= etlRun.base THEN 0
    ELSE RowsLoaded(k - 1) + syncLog[k].loaded

\* The run returned its summary.
RunSummarized == runPc = "returned" /\ etlRun.success

\* C30: the summary of a run satisfies successfulTables + failedTables =
\* totalTables, and totalRecordsProcessed and totalRecordsLoaded are the
\* numbers of source rows extracted and of target rows loaded across the
\* tables of the run.
C30_SummaryCountsTheRun ==
    RunSummarized =>
       /\ etlRun.summary.successfulTables + etlRun.summary.failedTables
             = etlRun.summary.totalTables
       /\ etlRun.summary.totalRecordsProcessed = RowsExtracted(Len(syncLog))
       /\ etlRun.summary.totalRecordsLoaded = RowsLoaded(Len(syncLog))

\* What the code does: the table counts add up; an incremental run counts
\* the rows extracted for the tables that succeeded; a full run counts
\* nothing, its table results having neither extract nor load.
C30_SummaryTableCountsAddUp ==
    RunSummarized =>
       /\ etlRun.summary.successfulTables + etlRun.summary.failedTables
             = etlRun.summary.totalTables
       /\ etlRun.summary.totalTables = Cardinality(DOMAIN etlRun.results)
       /\ etlRun.type = "full" =>
             /\ etlRun.summary.totalRecordsProcessed = 0
             /\ etlRun.summary.totalRecordsLoaded = 0
       /\ etlRun.type = "incremental" =>
             etlRun.summary.totalRecordsProcessed = RowsExtracted(Len(syncLog))

\* A full run over users and transactions returned: both tables succeeded,
\* rows of both were extracted, and the summary reports no record.
C30_Witness ==
    /\ RunSummarized /\ etlRun.type = "full"
    /\ etlRun.summary.totalTables = 2 /\ etlRun.summary.successfulTables = 2
    /\ \A k \in RunCalls : Len(syncLog[k].extracted) > 0
    /\ RowsExtracted(Len(syncLog)) >= 3
    /\ etlRun.summary.totalRecordsProcessed = 0


(***************************************************************************)
(* The time budget of the sync jobs (SpecBudget).                          *)
(***************************************************************************)
\* Task t ends as failed in this step: the catch block counts it and the
\* finally block removes its kind.
EndsFailed(t) ==
    /\ tasks'[t].pc = "done"
    /\ stats'.failedJobs = stats.failedJobs + 1
    /\ tasks[t].kind \notin currentJobs'

\* C26: a fullSync job over its one-hour budget, or an incrementalSync job
\* over its five-minute budget, gives up at its next suspension point and
\* ends as failed: the step in which an await of an over-budget job returns
\* ends the job in the failed state.
C26_OverBudgetJobEndsFailed ==
    [][\A t \in 1..MaxFires :
          (OverBudget(t) /\ tasks'[t] # tasks[t]) => EndsFailed(t)]_vars

\* What the code does: a job goes on from await to await whatever time has
\* passed, and no job is ever counted as failed.
C26_NoJobEverFails ==
    /\ stats.failedJobs = 0
    /\ \A t \in 1..MaxFires :
          tasks[t].pc = "done" =>
             /\ Len(tasks[t].results) = Len(JobTables(tasks[t].kind))
             /\ tasks[t].kind \in {"fullSync", "incrementalSync"} =>
                   stats.successfulJobs >= 1

\* An executeFullSync call walked its three tables and returned, counted as
\* successful, after awaits that returned beyond the hour.
C26_Witness ==
    \E t \in 1..MaxFires :
       /\ tasks[t].kind = "fullSync" /\ tasks[t].pc = "done"
       /\ tasks[t].late >= 2
       /\ (now - tasks[t].startTime) * MinutesPerTick > FullSyncTimeout
       /\ stats.successfulJobs >= 1 /\ stats.failedJobs = 0


(***************************************************************************)
(* Two loaders on one table (SpecTwoLoaders).                              *)
(***************************************************************************)
\* Both loadBatch calls were made and are over.
BothLoadsOver == \A j \in LoadJobs : ccPc[j] \in {"returned", "threw"}

\* The external keys of the records of a batch.
KeysOf(batch) == {CleanRecord(batch[i])[KeyField(Mappings[CcTable])] : i \in 1..Len(batch)}

\* The external keys both batches carry.
SharedKeys == KeysOf(ccTxn["full"].batch) \cap KeysOf(ccTxn["incremental"].batch)

\* The committed rows of the target table with a given external key.
RowsWithKey(key) ==
    {i \in 1..Len(target[CcTarget]) : target[CcTarget][i][KeyField(Mappings[CcTable])] = key}

\* C25: a full and an incremental sync that load the same source row into
\* the same target table at the same time are tolerated.  Once both batches
\* are over, the target holds exactly one row for every external key both
\* carried, and neither batch was rolled back: both returned from COMMIT
\* with their writes persisted.
C25_ConcurrentLoadsLeaveOneRow ==
    (BothLoadsOver /\ SharedKeys # {}) =>
       /\ \A key \in SharedKeys : Cardinality(RowsWithKey(key)) = 1
       /\ \A j \in LoadJobs : ccPc[j] = "returned" /\ ccTxn[j].committed

\* A batch loaded while no other is, commits, and leaves one row per key.
C25_LoadAloneCommits ==
    \A j \in LoadJobs :
       (ccPc[j] \in {"returned", "threw"} /\ \A k \in LoadJobs \ {j} : ccPc[k] = "idle") =>
          /\ ccPc[j] = "returned" /\ ccTxn[j].committed
          /\ \A key \in KeysOf(ccTxn[j].batch) : Cardinality(RowsWithKey(key)) = 1

\* With a unique index: the full job loaded transaction 12 and then 11, the
\* incremental job loaded 11; both calls returned, the INSERT of 11 of the
\* full job was skipped after the incremental job committed its own, and the
\* COMMIT of the full job persisted nothing: row 12 is not in the table.
C25_Witness ==
    /\ BothLoadsOver /\ ccUnique
    /\ Len(ccTxn["full"].batch) = 2 /\ Len(ccTxn["incremental"].batch) = 1
    /\ KeysOf(ccTxn["full"].batch) = {Num(11), Num(12)}
    /\ KeysOf(ccTxn["incremental"].batch) = {Num(11)}
    /\ ccTxn["full"].outcomes = <<"inserted", "skipped">>
    /\ ccPc["full"] = "returned" /\ ~ccTxn["full"].committed
    /\ ccTxn["incremental"].committed
    /\ RowsWithKey(Num(12)) = {}
    /\ Cardinality(RowsWithKey(Num(11))) = 1

\* Without a unique index: both jobs inserted transaction 11 and committed,
\* and the table holds two rows for the key.
C25_WitnessTwoRows ==
    /\ BothLoadsOver /\ ~ccUnique
    /\ \A j \in LoadJobs : ccTxn[j].committed /\ ccTxn[j].outcomes = <<"inserted">>
    /\ SharedKeys = {Num(11)}
    /\ Cardinality(RowsWithKey(Num(11))) = 2

(***************************************************************************)
(* Claims about the life of a data_sync_logs row, checked under            *)
(* SpecExternal.                                                           *)
(***************************************************************************)
ExtFinished(c) == extCalls[c].pc \in {"returned", "threw"}

\* C31 (as claimed): no data_sync_logs row of a finished syncExternalData
\* call is left RUNNING: the row of a call that returned is COMPLETED and the
\* row of a call that threw is FAILED.
C31_FinishedCallLeavesNoRunningRow ==
    \A c \in ExtCallIds :
       ExtFinished(c) => dataSyncLogs[c].status # "RUNNING"

\* C31 witness: a call threw after its row was created, and the row is still
\* RUNNING, since the updateSyncLog of the catch block threw as well.
C31_Witness ==
    \E c \in ExtCallIds :
       /\ extCalls[c].pc = "threw"
       /\ dataSyncLogs[c] = NewLogRow

\* What the code does keep: a call that returned left its row COMPLETED, a
\* row that is FAILED belongs to a call that threw or is about to, and no
\* call has more than its one row.
C31_ReturnedCallRowIsCompleted ==
    \A c \in ExtCallIds :
       /\ (extCalls[c].pc = "returned") => dataSyncLogs[c].status = "COMPLETED"
       /\ (dataSyncLogs[c].status = "FAILED") => extCalls[c].pc = "threw"
       /\ (extCalls[c].pc \in {"none", "creating"}) => dataSyncLogs[c] = NoLogRow

\* A row that is COMPLETED or FAILED is never written again.
C31_FinalizedRowIsNeverUpdated ==
    [][\A c \in ExtCallIds :
          (dataSyncLogs[c].status \in {"COMPLETED", "FAILED"})
             => dataSyncLogs'[c] = dataSyncLogs[c]]_vars

(***************************************************************************)
(* Claims about the clients of targetPool, checked under SpecClients.      *)
(***************************************************************************)
BatchFinished(c) == batchCalls[c].pc \in {"returned", "threw"}

CountOf(seq, x) == Cardinality({i \in DOMAIN seq : seq[i] = x})

\* C32: a client loadBatch took is held by that call alone, sees one BEGIN as
\* its first statement and COMMIT or ROLLBACK as its last, and is released
\* exactly once, after that statement, whether the batch committed, rolled
\* back or the ROLLBACK failed: the checked-out clients are those of the
\* calls in progress, so none is when every call is over.
C32_ClientReleasedExactlyOnce ==
    /\ \A c \in BatchCallIds :
          /\ HoldsClient(c) =>
                /\ batchCalls[c].released = 0 /\ batchCalls[c].client \in CheckedOut
                /\ \A e \in BatchCallIds :
                      (e # c /\ HoldsClient(e)) => batchCalls[e].client # batchCalls[c].client
          /\ (BatchFinished(c) /\ batchCalls[c].client # 0) =>
                /\ batchCalls[c].released = 1
                /\ batchCalls[c].statements[1] = "BEGIN"
                /\ CountOf(batchCalls[c].statements, "BEGIN") = 1
                /\ batchCalls[c].statements[Len(batchCalls[c].statements)]
                      = IF batchCalls[c].pc = "returned" THEN "COMMIT" ELSE "ROLLBACK"
          /\ (BatchFinished(c) /\ batchCalls[c].client = 0) =>
                batchCalls[c].released = 0 /\ batchCalls[c].statements = << >>
    /\ Cardinality(CheckedOut) = Cardinality({c \in BatchCallIds : HoldsClient(c)})

\* C32 witness: every call is over, one committed, one rolled back after a
\* COMMIT that failed, and no client is checked out.
C32_Witness ==
    /\ \A c \in BatchCallIds : BatchFinished(c)
    /\ \E c, e \in BatchCallIds :
          /\ batchCalls[c].pc = "returned" /\ batchCalls[c].client # 0
          /\ batchCalls[e].statements = <<"BEGIN", "COMMIT", "ROLLBACK">>
          /\ batchCalls[e].client = batchCalls[c].client
    /\ CheckedOut = {}

(***************************************************************************)
(* Claims about the reads of generateUserAnalytics, checked under          *)
(* SpecReads.                                                              *)
(***************************************************************************)
\* The deposits of the user the external database holds within the period
\* of the calls.
PeriodDeposits ==
    {row \in external["deposits"] :
        /\ row.user_id = ReadsUser
        /\ row.created_at >= PeriodRange(ReadsRefDate, "DAILY").periodStart
        /\ row.created_at <= PeriodRange(ReadsRefDate, "DAILY").periodEnd}

RECURSIVE SumOfSet(_, _)
SumOfSet(rows, field) ==
    IF rows = {} THEN 0
    ELSE LET row == CHOOSE r \in rows : TRUE
         IN  row[field] + SumOfSet(rows \ {row}, field)

\* The call passed its analytics object to the upsert.
Upserted(c) == anaCalls[c].pc \in {"upserting", "returnedRow"}

\* C33 (as claimed): the total_deposits and deposit_count generateUserAnalytics
\* writes are the sum of the amounts and the number of all deposits of the
\* user within the period, however many there are.
C33_DepositTotalsCoverThePeriod ==
    /\ \A c \in AnaCallIds :
          Upserted(c) =>
             /\ anaCalls[c].analytics.deposit_count = Cardinality(PeriodDeposits)
             /\ anaCalls[c].analytics.total_deposits = SumOfSet(PeriodDeposits, "amount")
    /\ \A i \in 1..Len(userAnalytics) :
          /\ userAnalytics[i].deposit_count = Cardinality(PeriodDeposits)
          /\ userAnalytics[i].total_deposits = SumOfSet(PeriodDeposits, "amount")

\* C33 witness: the period holds one deposit more than the limit of
\* getExternalData and the row written counts the limit.
C33_Witness ==
    /\ Cardinality(PeriodDeposits) = ExternalDataLimit + 1
    /\ \E i \in 1..Len(userAnalytics) :
          /\ userAnalytics[i].deposit_count = ExternalDataLimit
          /\ userAnalytics[i].total_deposits < SumOfSet(PeriodDeposits, "amount")

\* What the code does keep: the totals are those of the newest deposits of
\* the period up to the limit, so of all of them while they are no more than
\* the limit.
C33_DepositTotalsCoverTheNewestRows ==
    \A i \in 1..Len(userAnalytics) :
       /\ userAnalytics[i].deposit_count
             = IF Cardinality(PeriodDeposits) < ExternalDataLimit
               THEN Cardinality(PeriodDeposits) ELSE ExternalDataLimit
       /\ Cardinality(PeriodDeposits) <= ExternalDataLimit =>
             userAnalytics[i].total_deposits = SumOfSet(PeriodDeposits, "amount")
       /\ userAnalytics[i].total_deposits
             = SumOf(Take(NewestFirst(PeriodDeposits), ExternalDataLimit), "amount")

\* The four reads of getUserDataForPeriod.
FourReads == {"user", "transactions", "bets", "deposits"}

\* C38: a step in which generateUserAnalytics returns null (no user row, or
\* a read threw) leaves user_analytics as it is, and user_analytics only
\* changes by the upsert of a call whose four reads all returned.
C38_RowOnlyAfterFourReads ==
    [][/\ \A c \in AnaCallIds :
             (anaCalls[c].pc # "returnedNull" /\ anaCalls'[c].pc = "returnedNull")
                => userAnalytics' = userAnalytics
       /\ (userAnalytics' # userAnalytics) =>
             \E c \in AnaCallIds :
                /\ anaCalls[c].pc = "upserting" /\ anaCalls'[c].pc = "returnedRow"
                /\ FourReads \subseteq DOMAIN anaCalls[c]]_vars

\* C38 witness: one call wrote its row, another returned null because its
\* read of the deposits threw, and the table holds the one row as written.
C38_Witness ==
    \E c, e \in AnaCallIds :
       /\ anaCalls[e].pc = "returnedRow"
       /\ anaCalls[c].pc = "returnedNull"
       /\ "bets" \in DOMAIN anaCalls[c] /\ "deposits" \notin DOMAIN anaCalls[c]
       /\ Len(userAnalytics) = 1
       /\ NonKey(userAnalytics[1]) = lastWrite[Key(userAnalytics[1])]

(***************************************************************************)
(* Claims about the counters of the scheduler, checked under SpecSched.    *)
(***************************************************************************)
\* C34 (as claimed): in every state of the scheduler, totalJobs =
\* successfulJobs + failedJobs + the number of kinds in currentJobs.
C34_StatsAccountForRunningJobs ==
    stats.totalJobs = stats.successfulJobs + stats.failedJobs + Cardinality(currentJobs)

\* The fullSync executions that await loader.cleanup(): counted as
\* successful, and their kind still in currentJobs.
CleaningAfterSync ==
    {t \in 1..MaxFires : tasks[t].pc = "cleanup" /\ tasks[t].kind = "fullSync"}

\* C34 witness: a fullSync job awaits its loader.cleanup() with its kind in
\* currentJobs and already counted in successfulJobs.
C34_Witness ==
    /\ CleaningAfterSync # {}
    /\ "fullSync" \in currentJobs
    /\ stats.totalJobs = 1 /\ stats.successfulJobs = 1 /\ stats.failedJobs = 0

\* What the code does keep: the equation holds except for the fullSync job
\* between its successfulJobs++ and its finally block.
C34_StatsAccountExceptWhileCleaning ==
    stats.totalJobs + Cardinality(CleaningAfterSync)
       = stats.successfulJobs + stats.failedJobs + Cardinality(currentJobs)

(***************************************************************************)
(* Claims about the counters of the loader, checked under SpecLoader.      *)
(***************************************************************************)
\* C35 (as claimed): once loadBatch is over, recordsLoaded = recordsInserted
\* + recordsUpdated, and recordsInserted and recordsUpdated are the numbers
\* of inserts and updates the target holds committed.
C35_CountersMatchCommittedWrites ==
    loadPc \in {"returned", "threw"} =>
       /\ loadStats.recordsLoaded = loadStats.recordsInserted + loadStats.recordsUpdated
       /\ loadStats.recordsInserted
             = Len(LoadTarget) - Len(targetAtBegin[Mappings[loadTable].targetTable])
       /\ loadStats.recordsUpdated
             = IF loadCommitted THEN CountOf(loadOutcomes, "updated") ELSE 0

\* C35 witness: the batch was rolled back after a record was inserted; the
\* target is as it was and recordsInserted and recordsLoaded are 1.
C35_Witness ==
    /\ loadPc = "threw"
    /\ loadOutcomes = <<"inserted", "failed">>
    /\ target = targetAtBegin
    /\ loadStats.recordsInserted = 1 /\ loadStats.recordsLoaded = 1

\* What the code does keep: recordsLoaded = recordsInserted + recordsUpdated,
\* and the two count the loadRecord calls that returned from their write,
\* committed or not.
C35_CountersCountWritesAttempted ==
    /\ loadStats.recordsLoaded = loadStats.recordsInserted + loadStats.recordsUpdated
    /\ loadStats.recordsInserted = CountOf(loadOutcomes, "inserted")
    /\ loadStats.recordsUpdated = CountOf(loadOutcomes, "updated")

(***************************************************************************)
(* Claims about loader.cleanup(), checked under SpecSched.                 *)
(***************************************************************************)
\* The executions that await loader.cleanup().
Cleaning == {t \in 1..MaxFires : tasks[t].pc = "cleanup"}

\* C36 (as claimed): loader.cleanup() is never run by two jobs at once.
C36_CleanupRunsOneAtATime == Cardinality(Cleaning) <= 1

\* C36 witness: a cleanup job and a fullSync job await loader.cleanup() of
\* the one loader at the same time.
C36_Witness ==
    \E t, u \in Cleaning :
       /\ tasks[t].kind = "cleanup" /\ tasks[u].kind = "fullSync"
       /\ currentJobs = {"cleanup", "fullSync"}

\* What the code does keep: no two cleanups of the same kind of job.
C36_OneCleanupPerKind ==
    \A t, u \in Cleaning : tasks[t].kind = tasks[u].kind => t = u

(***************************************************************************)
(* Claims about the outcome of a cleanup, checked under SpecCleanup.       *)
(***************************************************************************)
\* The cleanup jobs that are over, by whether a step of their cleanup threw.
CleanupJobs(failed) ==
    {t \in 1..MaxFires : /\ tasks[t].pc = "done" /\ tasks[t].kind = "cleanup"
                         /\ StepFailed(tasks[t].results) = failed}

\* C37 (as claimed): a cleanup job of which a step failed is counted in
\* failedJobs and not in successfulJobs, and runCleanup returns success: true
\* only when every step of its cleanup completed.
C37_FailedCleanupIsReportedFailed ==
    /\ stats.failedJobs = Cardinality(CleanupJobs(TRUE))
    /\ stats.successfulJobs = Cardinality(CleanupJobs(FALSE))
    /\ (runPc = "returned") => (etlRun.success <=> ~StepFailed(etlRun.results))

\* C37 witness: the orphan deletion of a cleanup job threw and the job is
\* counted as successful; the connect of a runCleanup threw and it returned
\* success: true.
C37_Witness ==
    /\ \E t \in CleanupJobs(TRUE) : tasks[t].results = <<TRUE, FALSE>>
    /\ stats.successfulJobs = 1 /\ stats.failedJobs = 0 /\ stats.totalJobs = 1
    /\ runPc = "returned" /\ etlRun.results = <<FALSE>> /\ etlRun.success

\* What the code does: every cleanup job that is over is counted as
\* successful and every runCleanup returns success: true.
C37_CleanupAlwaysReportsSuccess ==
    /\ stats.failedJobs = 0
    /\ stats.successfulJobs = Cardinality(CleanupJobs(TRUE) \cup CleanupJobs(FALSE))
    /\ (runPc = "returned") => etlRun.success

(***************************************************************************)
(* Claims about the pools of an extractor, checked under SpecConnect.      *)
(***************************************************************************)
\* The pools that were made, are not ended, and are not the one the
\* extractor refers to: nothing can end them any more.
LeakedPools == {p \in 1..madePools : p # sourcePool /\ p \notin endedPools}

\* C39 (as claimed): connect() calls that overlap on an extractor that is not
\* connected make at most one pool, and every pool made is the current
\* sourcePool or has been ended.
C39_NoPoolIsLeaked ==
    /\ LeakedPools = {}
    /\ madePools <= 1 + Cardinality(endedPools)

\* C39 witness: two connect() calls overlapped against a reachable database
\* and both returned; two pools were made, the extractor refers to the second
\* and the first is not ended.
C39_Witness ==
    /\ nFlips = 0 /\ nConnCalls = 2
    /\ connCalls[1].pc = "returned" /\ connCalls[2].pc = "returned"
    /\ connCalls[1].attempts = 1 /\ connCalls[2].attempts = 1
    /\ madePools = 2 /\ sourcePool = 2 /\ LeakedPools = {1}

\* C39 witness after disconnect(): the extractor is disconnected, its pool
\* ended, and the pool of the first call is still open.
C39_WitnessAfterDisconnect ==
    /\ nFlips = 0 /\ nConnCalls = 2
    /\ ~connIsConnected /\ endedPools = {2} /\ LeakedPools = {1}

\* What the code does keep: one call against a reachable database makes one
\* pool, which disconnect() ends.
C39_OneCallMakesOnePool ==
    (nConnCalls <= 1 /\ nFlips = 0) => (madePools <= 1 /\ LeakedPools = {})

\* C40 (as claimed): when initialize() is called again before an earlier call
\* has returned, the scheduler still has at most one started cron task of each
\* kind, and one tick of a cron expression runs the callback of its kind at
\* most once.
C40_OneCronTaskPerKind ==
    /\ \A k \in Kinds : cronTasks[k] <= 1
    /\ cronTick.fired <= 1

\* C40 witness: two initialize() calls overlapped and both returned normally;
\* two tasks of each kind were started, and one tick of the full sync ran
\* executeFullSync twice, the second call finding the first still running.
C40_Witness ==
    /\ initializing[1] = "done" /\ initializing[2] = "done"
    /\ cronTasks["fullSync"] = 2 /\ jobs = Kinds
    /\ cronTick = [kind |-> "fullSync", pending |-> 0, fired |-> 2]
    /\ nFires = 2 /\ tasks[1].pc = "sync" /\ tasks[2].pc = "dropped"

\* C40 witness of a job run twice: the two callbacks of one tick of the
\* cleanup each ran the cleanup, the first having finished before the second
\* was called.
C40_WitnessJobRunsTwice ==
    /\ cronTick = [kind |-> "cleanup", pending |-> 0, fired |-> 2]
    /\ nFires = 2 /\ dropped = 0
    /\ tasks[1].kind = "cleanup" /\ tasks[2].kind = "cleanup"
    /\ tasks[1].pc = "done" /\ tasks[2].pc = "done"

\* What the code does keep: each initialize() call that passed its connection
\* test started one task of each kind, a tick runs one callback per started
\* task, and a call made once isInitialized is set starts none.
C40_OneCronTaskPerCompletedCall ==
    /\ \A k \in Kinds :
          cronTasks[k] = Cardinality({c \in InitCallIds : initializing[c] = "done"})
    /\ \A k \in Kinds :
          cronTick.kind = k => cronTick.pending + cronTick.fired <= cronTasks[k]
    /\ (\E c \in InitCallIds : initializing[c] = "returned") => isInitialized

====
